---- MODULE Spec2Model ----
(***************************************************************************)
(* Breakout + Reentry trading bot: the per-symbol detector state machine,  *)
(* the risk levels, the close check, the state file and the ledger.        *)
(*                                                                         *)
(* Two engines share the detection logic and are both modelled; the        *)
(* variable `variant` says which one runs:                                 *)
(*   "estrategia"  src/src/strategies/ (signal only, price based close)    *)
(*   "web"         src/bot_web_service.py (live execution on BingX)        *)
(*                                                                         *)
(* Units.  Time is in minutes.  Prices are integers; every price fed to    *)
(* the model is a multiple of 250 so that the 2 % stop and the 1.2 ratio   *)
(* are exact in integer arithmetic.  Angles are whole degrees, the Pearson *)
(* coefficient is in hundredths, r2 in ten-thousandths, the channel width  *)
(* in hundredths of a percent, the oscillator in whole points.             *)
(***************************************************************************)
EXTENDS Integers, Sequences, FiniteSets, TLC

VARIABLES
    variant,      \* which engine runs
    now,          \* datetime.now(), minutes
    config,       \* self.config
    bot,          \* the TradingBot object's fields
    estado_file,  \* the JSON state file (self.estado_file)
    archivo_log,  \* the operations ledger (self.archivo_log), rows after the header
    log_file,     \* the ledger file: whether it exists, header rows in it
    ult           \* history: what the last cycle read and did, per symbol

vars == <<variant, now, config, bot, estado_file, archivo_log, log_file, ult>>

----------------------------------------------------------------------------
(* Bounds of the model *)

MaxTime == 180
MaxLedger == 2

(* Program constants *)

REENTRY_TIMEOUT_ESTRATEGIA == 30
REENTRY_TIMEOUT_WEB == 120
BREAKOUT_COOLDOWN_ESTRATEGIA == 25
BREAKOUT_COOLDOWN_WEB == 115
SIGNAL_COOLDOWN_HOURS == 2
MIN_TREND_STRENGTH_DEGREES == 16
MIN_CHANNEL_WIDTH_PERCENT_X100 == 400
MIN_RR_RATIO_X10 == 12
SL_PORCENTAJE_X100 == 2
TOLERANCIA_X1000 == 1
STOCH_OVERSOLD == 30
STOCH_OVERBOUGHT == 70
PEARSON_MIN_X100 == 40
R2_MIN_X10000 == 4000
NIVEL_FUERZA_MIN == 2
UMBRAL_DIRECCION == 1

Variantes == {"estrategia", "web"}
(* self.config['symbols'] *)
Symbols == config.symbols
SymbolSet == {Symbols[i] : i \in 1..Len(Symbols)}

Abs(x) == IF x < 0 THEN -x ELSE x

(* A Python dict is a function whose domain is its key set. *)
EmptyDict == [k \in {} |-> 0]
Del(d, k) == [x \in (DOMAIN d) \ {k} |-> d[x]]
Put(d, k, v) == [x \in (DOMAIN d) \cup {k} |-> IF x = k THEN v ELSE d[x]]

ReentryTimeoutIntercambiado(v) ==
    IF v = "estrategia" THEN REENTRY_TIMEOUT_WEB ELSE REENTRY_TIMEOUT_ESTRATEGIA
ReentryTimeout(v) == IF v = "estrategia" THEN REENTRY_TIMEOUT_ESTRATEGIA ELSE REENTRY_TIMEOUT_WEB
BreakoutCooldown(v) == IF v = "estrategia" THEN BREAKOUT_COOLDOWN_ESTRATEGIA ELSE BREAKOUT_COOLDOWN_WEB

----------------------------------------------------------------------------
(* Channel analyzer: the fields of info_canal that are derived from the   *)
(* regression outputs.  The regression itself is an input of the scan.    *)

clasificar_fuerza_limite_abajo(angulo_grados) ==
    LET angulo_abs == Abs(angulo_grados) IN
    IF angulo_abs <= 3 THEN 1
    ELSE IF angulo_abs <= 13 THEN 2
    ELSE IF angulo_abs <= 27 THEN 3
    ELSE IF angulo_abs <= 45 THEN 4
    ELSE 5
clasificar_fuerza_tendencia(angulo_grados) ==
    LET angulo_abs == Abs(angulo_grados) IN
    IF angulo_abs < 3 THEN 1
    ELSE IF angulo_abs < 13 THEN 2
    ELSE IF angulo_abs < 27 THEN 3
    ELSE IF angulo_abs < 45 THEN 4
    ELSE 5

determinar_direccion_tendencia(angulo_grados) ==
    IF Abs(angulo_grados) < UMBRAL_DIRECCION THEN "RANGO"
    ELSE IF angulo_grados > 0 THEN "ALCISTA"
    ELSE "BAJISTA"

(* r2 of the least-squares line of the closes is the square of their      *)
(* Pearson coefficient with the index.                                    *)
calcular_r2(pearson) == pearson * pearson

(* m: the regression outputs and the last close of one market reading *)
calcular_canal_regresion_config(m) ==
    [ resistencia |-> m.resistencia,
      soporte |-> m.soporte,
      precio_actual |-> m.precio,
      ancho_canal |-> m.resistencia - m.soporte,
      ancho_canal_porcentual |->
          ((m.resistencia - m.soporte) * 20000) \div (m.resistencia + m.soporte),
      angulo_tendencia |-> m.angulo,
      coeficiente_pearson |-> m.pearson,
      nivel_fuerza |-> clasificar_fuerza_tendencia(m.angulo),
      direccion |-> determinar_direccion_tendencia(m.angulo),
      r2_score |-> calcular_r2(m.pearson),
      stoch_k |-> m.stoch_k,
      stoch_d |-> m.stoch_d ]

----------------------------------------------------------------------------
(* Breakout / reentry detector *)

Get(d, k, default) == IF k \in DOMAIN d THEN d[k] ELSE default

(* The strength / Pearson / r2 filter at the head of the scan loop:       *)
(* TRUE when the symbol is rejected for this cycle.                       *)
FiltroCalidad(canal) ==
    \/ canal.nivel_fuerza < NIVEL_FUERZA_MIN
    \/ Abs(canal.coeficiente_pearson) < PEARSON_MIN_X100
    \/ canal.r2_score < R2_MIN_X10000

detectar_breakout_inclusivo(b, v, cfg, t, simbolo, canal) ==
    IF \/ canal.ancho_canal_porcentual
             < Get(cfg, "min_channel_width_percent", MIN_CHANNEL_WIDTH_PERCENT_X100)
       \/ Abs(canal.angulo_tendencia)
             < Get(cfg, "min_trend_strength_degrees", MIN_TREND_STRENGTH_DEGREES)
       \/ Abs(canal.coeficiente_pearson) < PEARSON_MIN_X100
       \/ canal.r2_score < R2_MIN_X10000
    THEN "NONE"
    ELSE IF canal.direccion = "ALCISTA" /\ canal.precio_actual <= canal.soporte
    THEN "BREAKOUT_LONG"
    ELSE IF canal.direccion = "BAJISTA" /\ canal.precio_actual >= canal.resistencia
    THEN "BREAKOUT_SHORT"
    ELSE "NONE"
detectar_breakout_con_umbral(b, v, cfg, t, simbolo, canal) ==
    LET precio_cierre == canal.precio_actual
        reciente ==
            /\ simbolo \in DOMAIN b.breakouts_detectados
            /\ t - b.breakouts_detectados[simbolo].timestamp < BreakoutCooldown(v)
    IN
    IF canal.ancho_canal_porcentual
           < Get(cfg, "min_channel_width_percent", MIN_CHANNEL_WIDTH_PERCENT_X100)
    THEN "NONE"
    ELSE IF Abs(canal.angulo_tendencia)
           < Get(cfg, "min_trend_strength_degrees", MIN_TREND_STRENGTH_DEGREES)
    THEN "NONE"
    ELSE IF Abs(canal.angulo_tendencia) < Get(cfg, "trend_threshold_degrees", 16)
    THEN "NONE"
    ELSE IF Abs(canal.coeficiente_pearson) < PEARSON_MIN_X100
            \/ canal.r2_score < R2_MIN_X10000
    THEN "NONE"
    ELSE IF reciente THEN "NONE"
    ELSE IF canal.direccion = "ALCISTA" /\ canal.nivel_fuerza >= NIVEL_FUERZA_MIN
    THEN (IF precio_cierre < canal.soporte THEN "BREAKOUT_LONG" ELSE "NONE")
    ELSE IF canal.direccion = "BAJISTA" /\ canal.nivel_fuerza >= NIVEL_FUERZA_MIN
    THEN (IF precio_cierre > canal.resistencia THEN "BREAKOUT_SHORT" ELSE "NONE")
    ELSE "NONE"
detectar_breakout(b, v, cfg, t, simbolo, canal) ==
    LET precio_cierre == canal.precio_actual
        reciente ==
            /\ simbolo \in DOMAIN b.breakouts_detectados
            /\ t - b.breakouts_detectados[simbolo].timestamp < BreakoutCooldown(v)
    IN
    IF canal.ancho_canal_porcentual
           < Get(cfg, "min_channel_width_percent", MIN_CHANNEL_WIDTH_PERCENT_X100)
    THEN "NONE"
    ELSE IF Abs(canal.angulo_tendencia)
           < Get(cfg, "min_trend_strength_degrees", MIN_TREND_STRENGTH_DEGREES)
    THEN "NONE"
    ELSE IF Abs(canal.coeficiente_pearson) < PEARSON_MIN_X100
            \/ canal.r2_score < R2_MIN_X10000
    THEN "NONE"
    ELSE IF reciente THEN "NONE"
    ELSE IF canal.direccion = "ALCISTA" /\ canal.nivel_fuerza >= NIVEL_FUERZA_MIN
    THEN (IF precio_cierre < canal.soporte THEN "BREAKOUT_LONG" ELSE "NONE")
    ELSE IF canal.direccion = "BAJISTA" /\ canal.nivel_fuerza >= NIVEL_FUERZA_MIN
    THEN (IF precio_cierre > canal.resistencia THEN "BREAKOUT_SHORT" ELSE "NONE")
    ELSE "NONE"

EnToleranciaEstricta(precio, nivel) ==
    Abs(precio - nivel) * 1000 < TOLERANCIA_X1000 * precio
(* |precio - nivel| <= 0.001 * precio *)
EnTolerancia(precio, nivel) == Abs(precio - nivel) * 1000 <= TOLERANCIA_X1000 * precio

(* Result of detectar_reentry without its side effects: "TIMEOUT" stands  *)
(* for the branch that cancels the wait and returns None.                 *)
ReentryResultado(b, v, t, simbolo, canal) ==
    IF simbolo \notin DOMAIN b.esperando_reentry THEN "NONE"
    ELSE
    LET breakout_info == b.esperando_reentry[simbolo]
        precio_actual == canal.precio_actual
        dentro == canal.soporte <= precio_actual /\ precio_actual <= canal.resistencia
    IN
    IF t - breakout_info.timestamp > ReentryTimeout(v) THEN "TIMEOUT"
    ELSE IF breakout_info.tipo = "BREAKOUT_LONG"
    THEN (IF /\ dentro
             /\ EnTolerancia(precio_actual, canal.soporte)
             /\ canal.stoch_k <= STOCH_OVERSOLD
             /\ canal.stoch_d <= STOCH_OVERSOLD
          THEN "LONG" ELSE "NONE")
    ELSE IF breakout_info.tipo = "BREAKOUT_SHORT"
    THEN (IF /\ dentro
             /\ EnTolerancia(precio_actual, canal.resistencia)
             /\ canal.stoch_k >= STOCH_OVERBOUGHT
             /\ canal.stoch_d >= STOCH_OVERBOUGHT
          THEN "SHORT" ELSE "NONE")
    ELSE "NONE"

detectar_reentry_sin_limpiar(b, v, t, simbolo, canal) ==
    LET r == ReentryResultado(b, v, t, simbolo, canal) IN
    IF r = "TIMEOUT"
    THEN [ res |-> "NONE",
           bot |-> [b EXCEPT !.esperando_reentry = Del(@, simbolo)] ]
    ELSE IF r \in {"LONG", "SHORT"}
    THEN [ res |-> r, bot |-> b ]
    ELSE [ res |-> "NONE", bot |-> b ]
(* detectar_reentry: the value returned and the bot after the call *)
detectar_reentry(b, v, t, simbolo, canal) ==
    LET r == ReentryResultado(b, v, t, simbolo, canal) IN
    IF r = "TIMEOUT"
    THEN [ res |-> "NONE",
           bot |-> [b EXCEPT !.esperando_reentry = Del(@, simbolo),
                             !.breakouts_detectados = Del(@, simbolo)] ]
    ELSE IF r \in {"LONG", "SHORT"}
    THEN [ res |-> r,
           bot |-> [b EXCEPT !.breakouts_detectados = Del(@, simbolo)] ]
    ELSE [ res |-> "NONE", bot |-> b ]

----------------------------------------------------------------------------
(* Risk level calculator.  error = TRUE stands for the KeyError raised by *)
(* self.config['min_rr_ratio'] when the key is absent.                    *)

calcular_niveles_stop_en_entrada(tipo_operacion, canal, precio_actual, cfg) ==
    [ error |-> FALSE,
      precio_entrada |-> precio_actual,
      take_profit |-> IF tipo_operacion = "LONG"
                      THEN precio_actual + 2 * (canal.resistencia - canal.soporte)
                      ELSE precio_actual - 2 * (canal.resistencia - canal.soporte),
      stop_loss |-> (precio_actual * (100 - SL_PORCENTAJE_X100)) \div 100 ]
calcular_niveles_sin_ajuste(tipo_operacion, canal, precio_actual, cfg) ==
    [ error |-> FALSE,
      precio_entrada |-> precio_actual,
      take_profit |-> IF tipo_operacion = "LONG"
                      THEN precio_actual + (canal.resistencia - canal.soporte)
                      ELSE precio_actual - (canal.resistencia - canal.soporte),
      stop_loss |-> IF tipo_operacion = "LONG"
                    THEN (precio_actual * (100 - SL_PORCENTAJE_X100)) \div 100
                    ELSE (canal.resistencia * (100 + SL_PORCENTAJE_X100)) \div 100 ]
calcular_niveles_entrada(tipo_operacion, canal, precio_actual, cfg) ==
    LET ancho_canal == canal.resistencia - canal.soporte
        precio_entrada == precio_actual
        stop_loss ==
            IF tipo_operacion = "LONG"
            THEN (precio_entrada * (100 - SL_PORCENTAJE_X100)) \div 100
            ELSE (canal.resistencia * (100 + SL_PORCENTAJE_X100)) \div 100
        take_profit0 ==
            IF tipo_operacion = "LONG"
            THEN precio_entrada + ancho_canal
            ELSE precio_entrada - ancho_canal
        riesgo == Abs(precio_entrada - stop_loss)
        beneficio == Abs(take_profit0 - precio_entrada)
        \* ratio_rr < min_rr_ratio, with ratio_rr = 0 when riesgo = 0
        bajo == IF riesgo > 0
                THEN beneficio * 10 < Get(cfg, "min_rr_ratio", MIN_RR_RATIO_X10) * riesgo
                ELSE 0 < Get(cfg, "min_rr_ratio", MIN_RR_RATIO_X10)
    IN
    IF bajo /\ "min_rr_ratio" \notin DOMAIN cfg
    THEN [ error |-> TRUE, precio_entrada |-> 0, take_profit |-> 0, stop_loss |-> 0 ]
    ELSE [ error |-> FALSE,
           precio_entrada |-> precio_entrada,
           take_profit |->
               IF bajo
               THEN (IF tipo_operacion = "LONG"
                     THEN precio_entrada + (riesgo * cfg["min_rr_ratio"]) \div 10
                     ELSE precio_entrada - (riesgo * cfg["min_rr_ratio"]) \div 10)
               ELSE take_profit0,
           stop_loss |-> stop_loss ]

----------------------------------------------------------------------------
(* Scan configuration cache *)

NoConfig == [timeframe |-> "NONE", num_velas |-> 0]
Configs == {[timeframe |-> "5m", num_velas |-> 100]}
CONFIG_FRESCA_MINUTOS == 120

ConfigEnCache(b, t, simbolo) ==
    /\ simbolo \in DOMAIN b.config_optima_por_simbolo
    /\ simbolo \in DOMAIN b.ultima_busqueda_config
    /\ t - b.ultima_busqueda_config[simbolo] < CONFIG_FRESCA_MINUTOS

(* busqueda: what the search over timeframes and candle counts finds now  *)
buscar_configuracion_optima_simbolo(b, t, simbolo, busqueda) ==
    IF ConfigEnCache(b, t, simbolo)
    THEN [ res |-> b.config_optima_por_simbolo[simbolo], bot |-> b ]
    ELSE IF busqueda # NoConfig
    THEN [ res |-> busqueda,
           bot |-> [b EXCEPT !.config_optima_por_simbolo = Put(@, simbolo, busqueda),
                             !.ultima_busqueda_config = Put(@, simbolo, t)] ]
    ELSE [ res |-> NoConfig, bot |-> b ]

----------------------------------------------------------------------------
(* Signal generation: registers the active operation *)

generar_senal_sin_registro(b, t, simbolo, tipo_operacion, niv, canal, config_optima, breakout_info) ==
    [b EXCEPT !.senales_enviadas = @ \cup {simbolo}]
generar_senal_operacion(b, t, simbolo, tipo_operacion, niv, canal, config_optima, breakout_info) ==
    IF simbolo \in b.senales_enviadas THEN b
    ELSE [b EXCEPT
            !.operaciones_activas = Put(@, simbolo,
                [ tipo |-> tipo_operacion,
                  precio_entrada |-> niv.precio_entrada,
                  take_profit |-> niv.take_profit,
                  stop_loss |-> niv.stop_loss,
                  timestamp_entrada |-> t,
                  angulo_tendencia |-> canal.angulo_tendencia,
                  pearson |-> canal.coeficiente_pearson,
                  r2_score |-> canal.r2_score,
                  ancho_canal_porcentual |-> canal.ancho_canal_porcentual,
                  nivel_fuerza |-> canal.nivel_fuerza,
                  timeframe_utilizado |-> config_optima.timeframe,
                  velas_utilizadas |-> config_optima.num_velas,
                  stoch_k |-> canal.stoch_k,
                  stoch_d |-> canal.stoch_d,
                  breakout_usado |-> breakout_info ]),
            !.senales_enviadas = @ \cup {simbolo},
            !.total_operaciones = @ + 1]

----------------------------------------------------------------------------
(* escanear_mercado, one iteration of the loop over the symbols.          *)
(* in: what this iteration reads from outside                              *)
(*   posicion_bingx  BingX reports an open position for the symbol         *)
(*   busqueda        result of a configuration search, if one is run       *)
(*   mercado         the market reading (disponible = FALSE: no data or    *)
(*                   no channel)                                           *)
(*   ejecucion_ok    ejecutar_operacion_binance succeeds                   *)
(* The result carries the bot after the iteration and what happened:       *)
(*   paso      where the iteration ended                                   *)
(*   breakout  value returned by detectar_breakout ("NONE" if not called)  *)
(*   reentry   value returned by detectar_reentry ("NONE" if not called)   *)
(*   niveles   the levels computed for a confirmed reentry                 *)

NoNiveles == [error |-> FALSE, precio_entrada |-> 0, take_profit |-> 0, stop_loss |-> 0]

Fin(b, paso, bk, re, niv) ==
    [bot |-> b, paso |-> paso, breakout |-> bk, reentry |-> re, niveles |-> niv]

RegistrarBreakoutYEntrar(b, t, simbolo, tipo_breakout, canal, config_optima) ==
    [b EXCEPT
        !.esperando_reentry = Del(@, simbolo),
        !.operaciones_activas = Put(@, simbolo,
            [ tipo |-> IF tipo_breakout = "BREAKOUT_LONG" THEN "LONG" ELSE "SHORT",
              precio_entrada |-> canal.precio_actual,
              take_profit |-> canal.precio_actual,
              stop_loss |-> canal.precio_actual,
              timestamp_entrada |-> t,
              angulo_tendencia |-> canal.angulo_tendencia,
              pearson |-> canal.coeficiente_pearson,
              r2_score |-> canal.r2_score,
              ancho_canal_porcentual |-> canal.ancho_canal_porcentual,
              nivel_fuerza |-> canal.nivel_fuerza,
              timeframe_utilizado |-> config_optima.timeframe,
              velas_utilizadas |-> config_optima.num_velas,
              stoch_k |-> canal.stoch_k,
              stoch_d |-> canal.stoch_d,
              breakout_usado |-> FALSE ])]
(* The idle symbol starts waiting for the reentry *)
RegistrarBreakout(b, t, simbolo, tipo_breakout, canal, config_optima) ==
    [b EXCEPT
        !.esperando_reentry = Put(@, simbolo,
            [ tipo |-> tipo_breakout, timestamp |-> t,
              precio_breakout |-> canal.precio_actual, config |-> config_optima ]),
        !.breakouts_detectados = Put(@, simbolo,
            [ tipo |-> tipo_breakout, timestamp |-> t,
              precio_breakout |-> canal.precio_actual ])]

EnCooldownSenalMinutos(b, t, simbolo) ==
    /\ simbolo \in DOMAIN b.breakout_history
    /\ t - b.breakout_history[simbolo] < SIGNAL_COOLDOWN_HOURS
(* The minimum spacing between two signals of one symbol *)
EnCooldownSenal(b, t, simbolo) ==
    /\ simbolo \in DOMAIN b.breakout_history
    /\ t - b.breakout_history[simbolo] < SIGNAL_COOLDOWN_HOURS * 60

RegistrarSenalSinBorrar(b, t, simbolo) ==
    [b EXCEPT !.breakout_history = Put(@, simbolo, t)]
(* After the signal: the time of the signal is kept, the wait is over *)
RegistrarSenal(b, t, simbolo) ==
    [b EXCEPT !.breakout_history = Put(@, simbolo, t),
              !.esperando_reentry = Del(@, simbolo)]

(* From the reentry check to the end of the iteration *)
ProcesarReentry(b, v, cfg, t, simbolo, in, canal, config_optima) ==
    LET dr == detectar_reentry(b, v, t, simbolo, canal)
        b2 == dr.bot
        niv == calcular_niveles_entrada(dr.res, canal, canal.precio_actual, cfg)
        enCooldown == EnCooldownSenal(b2, t, simbolo)
        conSenal ==
            RegistrarSenal(
                generar_senal_operacion(b2, t, simbolo, dr.res, niv, canal, config_optima, TRUE),
                t, simbolo)
    IN
    IF dr.res = "NONE"
    THEN Fin(b2, IF simbolo \in DOMAIN b.esperando_reentry
                    /\ simbolo \notin DOMAIN b2.esperando_reentry
                 THEN "timeout" ELSE "sin_reentry", "NONE", "NONE", NoNiveles)
    ELSE IF niv.error
    THEN Fin(b2, "excepcion", "NONE", dr.res, niv)
    ELSE IF niv.precio_entrada = 0 \/ niv.take_profit = 0 \/ niv.stop_loss = 0
    THEN Fin(b2, "niveles_invalidos", "NONE", dr.res, niv)
    ELSE IF enCooldown
    THEN Fin(b2, "cooldown", "NONE", dr.res, niv)
    ELSE IF v = "web" /\ ~in.ejecucion_ok
    THEN Fin([b2 EXCEPT !.esperando_reentry = Del(@, simbolo)],
             "no_ejecutada", "NONE", dr.res, niv)
    ELSE Fin(conSenal, "senal", "NONE", dr.res, niv)

(* get_market_data / calcular_canal_regresion_config give None when the  *)
(* exchange returned nothing or fewer candles than the configuration asks *)
DatosSinFiltroDeVelas(m, num_velas) == ~m.disponible

DatosInsuficientes(m, num_velas) ==
    \/ ~m.disponible
    \/ m.velas < num_velas

EscanearSimbolo(b, v, cfg, t, simbolo, in) ==
    IF simbolo \in DOMAIN b.operaciones_activas
    THEN Fin(b, "activa", "NONE", "NONE", NoNiveles)
    ELSE IF v = "web" /\ in.posicion_bingx
    THEN Fin(b, "posicion_bingx", "NONE", "NONE", NoNiveles)
    ELSE
    LET bc == buscar_configuracion_optima_simbolo(b, t, simbolo, in.busqueda)
        b1 == bc.bot
        canal == calcular_canal_regresion_config(in.mercado)
        bk == detectar_breakout(b1, v, cfg, t, simbolo, canal)
    IN
    IF bc.res = NoConfig
    THEN Fin(b1, "sin_config", "NONE", "NONE", NoNiveles)
    ELSE IF DatosInsuficientes(in.mercado, bc.res.num_velas)
    THEN Fin(b1, "sin_datos", "NONE", "NONE", NoNiveles)
    ELSE IF FiltroCalidad(canal)
    THEN Fin(b1, "filtro", "NONE", "NONE", NoNiveles)
    ELSE IF simbolo \notin DOMAIN b1.esperando_reentry /\ bk # "NONE"
    THEN Fin(RegistrarBreakout(b1, t, simbolo, bk, canal, bc.res),
             "breakout", bk, "NONE", NoNiveles)
    ELSE IF simbolo \notin DOMAIN b1.esperando_reentry
    THEN Fin(b1, "sin_breakout", "NONE", "NONE", NoNiveles)
    ELSE ProcesarReentry(b1, v, cfg, t, simbolo, in, canal, bc.res)

----------------------------------------------------------------------------
(* Close check.  cin: what the check reads for one active symbol           *)
(*   posicion_bingx  the symbol is in posiciones_dict (web engine)         *)
(*   precio          precio_actual of the market data, 0 when unavailable  *)
(*   escritura_ok    the ledger can be appended to (registrar_operacion    *)
(*                   raises otherwise)                                     *)

FilaLedger(t, simbolo, operacion, precio_salida, resultado) ==
    [ timestamp |-> t,
      symbol |-> simbolo,
      tipo |-> operacion.tipo,
      precio_entrada |-> operacion.precio_entrada,
      take_profit |-> operacion.take_profit,
      stop_loss |-> operacion.stop_loss,
      precio_salida |-> precio_salida,
      resultado |-> resultado,
      pnl_percent |->
          IF operacion.tipo = "LONG"
          THEN ((precio_salida - operacion.precio_entrada) * 10000) \div operacion.precio_entrada
          ELSE ((operacion.precio_entrada - precio_salida) * 10000) \div operacion.precio_entrada,
      duracion_minutos |-> t - operacion.timestamp_entrada,
      angulo_tendencia |-> operacion.angulo_tendencia,
      pearson |-> operacion.pearson,
      r2_score |-> operacion.r2_score,
      nivel_fuerza |-> operacion.nivel_fuerza,
      breakout_usado |-> operacion.breakout_usado ]

(* strategy engine and OperationManager: the price decides *)
ResultadoPorPrecio(operacion, precio_actual) ==
    IF operacion.tipo = "LONG"
    THEN (IF precio_actual >= operacion.take_profit THEN "TP"
          ELSE IF precio_actual <= operacion.stop_loss THEN "SL"
          ELSE "NONE")
    ELSE (IF precio_actual <= operacion.take_profit THEN "TP"
          ELSE IF precio_actual >= operacion.stop_loss THEN "SL"
          ELSE "NONE")

(* web engine: the position is gone on BingX, the price only labels it *)
ResultadoBingx(operacion, precio_salida) ==
    IF \/ operacion.tipo = "LONG" /\ precio_salida * 1000 >= operacion.take_profit * 995
       \/ operacion.tipo = "SHORT" /\ precio_salida * 1000 <= operacion.take_profit * 1005
    THEN "TP" ELSE "SL"

ResultadoCierre(b, v, simbolo, cin) ==
    LET operacion == b.operaciones_activas[simbolo] IN
    IF v = "estrategia"
    THEN (IF simbolo \notin DOMAIN b.config_optima_por_simbolo THEN "NONE"
          ELSE IF cin.precio = 0 THEN "NONE"
          ELSE ResultadoPorPrecio(operacion, cin.precio))
    ELSE (IF cin.posicion_bingx THEN "NONE"
          ELSE IF cin.precio = 0 THEN "NONE"
          ELSE ResultadoBingx(operacion, cin.precio))

CerrarOperacion(b, simbolo) ==
    [b EXCEPT !.operaciones_activas = Del(@, simbolo),
              !.senales_enviadas = @ \ {simbolo},
              !.operaciones_desde_optimizacion = @ + 1]

(* The keys of operaciones_activas in the order of the dict, which is the  *)
(* order of insertion: by time of entry, and within one scan in the order  *)
(* of config['symbols'].                                                   *)
RECURSIVE OrdenDesde(_, _)
OrdenDesde(b, pendientes) ==
    IF pendientes = {} THEN <<>>
    ELSE
    LET primero == { x \in pendientes :
                       \A y \in pendientes :
                          b.operaciones_activas[x].timestamp_entrada
                              <= b.operaciones_activas[y].timestamp_entrada }
        k == CHOOSE j \in 1..Len(Symbols) :
                /\ Symbols[j] \in primero
                /\ \A m \in 1..Len(Symbols) : Symbols[m] \in primero => j <= m
    IN <<Symbols[k]>> \o OrdenDesde(b, pendientes \ {Symbols[k]})

OrdenActivas(b) == OrdenDesde(b, DOMAIN b.operaciones_activas)

(* st = [bot, log, error]; the loop over                                   *)
(* list(self.operaciones_activas.items()), orden: the items not yet        *)
(* visited.  No exception is caught in the loop: when registrar_operacion  *)
(* raises, the loop ends there and the exception leaves the function       *)
(* (error = TRUE).                                                         *)
RECURSIVE verificar_cierre_operaciones(_, _, _, _, _)
verificar_cierre_operaciones(st, v, t, cins, orden) ==
    IF orden = <<>> THEN st
    ELSE
    LET simbolo == Head(orden)
        res == ResultadoCierre(st.bot, v, simbolo, cins[simbolo])
    IN
    IF res = "NONE"
    THEN verificar_cierre_operaciones(st, v, t, cins, Tail(orden))
    ELSE IF ~cins[simbolo].escritura_ok
    THEN [st EXCEPT !.error = TRUE]
    ELSE verificar_cierre_operaciones(
             [ st EXCEPT
                 !.bot = CerrarOperacion(st.bot, simbolo),
                 !.log = Append(st.log,
                            FilaLedger(t, simbolo, st.bot.operaciones_activas[simbolo],
                                       cins[simbolo].precio, res)) ],
             v, t, cins, Tail(orden))

----------------------------------------------------------------------------
(* State file.  f = [existe] when there is no file, [existe, legible]    *)
(* when its content is not a JSON document, and the document otherwise.   *)
(* A datetime is written as its ISO string and read back by parsing the   *)
(* string; a string that is not an ISO date makes the parse raise.        *)

NoFile == [existe |-> FALSE]
Ilegible == [existe |-> TRUE, legible |-> FALSE]

isoformat(t) == [fmt |-> "iso", valor |-> t]
FechaMalformada == [fmt |-> "malformada", valor |-> 0]
EsFechaIso(x) == x.fmt = "iso"
fromisoformat(x) == x.valor

guardar_estado(b, t) ==
    [ existe |-> TRUE,
      legible |-> TRUE,
      ultima_optimizacion |-> isoformat(b.ultima_optimizacion),
      operaciones_desde_optimizacion |-> b.operaciones_desde_optimizacion,
      total_operaciones |-> b.total_operaciones,
      breakout_history |->
          [k \in DOMAIN b.breakout_history |-> isoformat(b.breakout_history[k])],
      config_optima_por_simbolo |-> b.config_optima_por_simbolo,
      ultima_busqueda_config |->
          [k \in DOMAIN b.ultima_busqueda_config |->
              isoformat(b.ultima_busqueda_config[k])],
      operaciones_activas |-> b.operaciones_activas,
      senales_enviadas |-> b.senales_enviadas,
      esperando_reentry |->
          [k \in DOMAIN b.esperando_reentry |->
              [ tipo |-> b.esperando_reentry[k].tipo,
                timestamp |-> isoformat(b.esperando_reentry[k].timestamp),
                precio_breakout |-> b.esperando_reentry[k].precio_breakout,
                config |-> b.esperando_reentry[k].config ]],
      breakouts_detectados |->
          [k \in DOMAIN b.breakouts_detectados |->
              [ tipo |-> b.breakouts_detectados[k].tipo,
                timestamp |-> isoformat(b.breakouts_detectados[k].timestamp),
                precio_breakout |-> b.breakouts_detectados[k].precio_breakout ]],
      timestamp_guardado |-> isoformat(t) ]

(* The fields set by __init__ before cargar_estado, for a bot constructed *)
(* at time 0                                                             *)
BotNuevo ==
    [ ultima_optimizacion |-> 0,
      operaciones_desde_optimizacion |-> 0,
      total_operaciones |-> 0,
      breakout_history |-> EmptyDict,
      config_optima_por_simbolo |-> EmptyDict,
      ultima_busqueda_config |-> EmptyDict,
      breakouts_detectados |-> EmptyDict,
      esperando_reentry |-> EmptyDict,
      operaciones_activas |-> EmptyDict,
      senales_enviadas |-> {} ]

FechasValidas(d) == \A k \in DOMAIN d : EsFechaIso(d[k])
InfosValidas(d) == \A k \in DOMAIN d : EsFechaIso(d[k].timestamp)
FechasLeidas(d) == [k \in DOMAIN d |-> fromisoformat(d[k])]
InfosLeidas(d) == [k \in DOMAIN d |-> [d[k] EXCEPT !.timestamp = fromisoformat(@)]]

(* cargar_estado: one try block around all of it.  An exception ends the  *)
(* load where it is raised and is only printed: the fields assigned       *)
(* before it keep what was loaded, the others what __init__ had set.      *)
cargar_estado(b, f) ==
    IF ~f.existe THEN b
    ELSE IF ~f.legible THEN b
    ELSE IF \/ ~EsFechaIso(f.ultima_optimizacion)
            \/ ~FechasValidas(f.ultima_busqueda_config)
            \/ ~FechasValidas(f.breakout_history)
            \/ ~InfosValidas(f.esperando_reentry)
         THEN b
    ELSE LET b1 == [b EXCEPT !.esperando_reentry = InfosLeidas(f.esperando_reentry)]
         IN
         IF ~InfosValidas(f.breakouts_detectados) THEN b1
         ELSE [ ultima_optimizacion |-> fromisoformat(f.ultima_optimizacion),
                operaciones_desde_optimizacion |-> f.operaciones_desde_optimizacion,
                total_operaciones |-> f.total_operaciones,
                breakout_history |-> FechasLeidas(f.breakout_history),
                config_optima_por_simbolo |-> f.config_optima_por_simbolo,
                ultima_busqueda_config |-> FechasLeidas(f.ultima_busqueda_config),
                breakouts_detectados |-> InfosLeidas(f.breakouts_detectados),
                esperando_reentry |-> InfosLeidas(f.esperando_reentry),
                operaciones_activas |-> f.operaciones_activas,
                senales_enviadas |-> f.senales_enviadas ]

(* TradingBot.__init__ at time t: cargar_estado, then the two fields it   *)
(* sets anew                                                              *)
TradingBotInit(f, t) ==
    [cargar_estado([BotNuevo EXCEPT !.ultima_optimizacion = t], f)
        EXCEPT !.operaciones_activas = EmptyDict,
               !.senales_enviadas = {}]

----------------------------------------------------------------------------
(* Ledger file.  f = [existe, cabeceras, filas] *)

NoLog == [existe |-> FALSE, cabeceras |-> 0, filas |-> <<>>]

inicializar_log_siempre(f) ==
    [existe |-> TRUE, cabeceras |-> 1, filas |-> <<>>]
(* the header is written, with mode 'w', only when the file is not there *)
inicializar_log(f) ==
    IF ~f.existe
    THEN [existe |-> TRUE, cabeceras |-> 1, filas |-> <<>>]
    ELSE f

----------------------------------------------------------------------------
(* Parameter optimizer.  It reads the rows of the ledger; which           *)
(* combination of its grid scores best on them is an input of the model   *)
(* (optimo), the same for the same ledger.  entry_margin is in            *)
(* ten-thousandths.                                                       *)

REOPT_OPERACIONES == 8
MIN_SAMPLES_INIT == 15
MIN_SAMPLES_REOPT == 30

NoParametros ==
    [ trend_threshold_degrees |-> 0, min_trend_strength_degrees |-> 0,
      entry_margin |-> 0 ]

(* some combinations of trend_values x strength_values x margin_values *)
CombinacionesOptimizador ==
    { [ trend_threshold_degrees |-> 3, min_trend_strength_degrees |-> 3,
        entry_margin |-> 5 ],
      [ trend_threshold_degrees |-> 3, min_trend_strength_degrees |-> 15,
        entry_margin |-> 5 ] }

(* the data rows of the ledger: those of earlier sessions and those of    *)
(* this model run                                                         *)
FilasLedger(lf, filas) == IF lf.existe THEN lf.previas + Len(filas) ELSE 0

(* The class OptimizadorIA of the strategies package is in a module that   *)
(* does not compile (an unterminated string in buscar_mejores_parametros): *)
(* its import raises inside the try of the caller, which goes on without   *)
(* parameters.                                                             *)
OptimizadorDisponible(v) == v # "estrategia"

buscar_sin_minimo(n_datos, min_samples, optimo) == optimo

(* None (NoParametros) without data or below min_samples, else the best   *)
(* combination, which always exists: every score is above -1e9            *)
buscar_mejores_parametros(n_datos, min_samples, optimo) ==
    IF n_datos = 0 \/ n_datos < min_samples THEN NoParametros ELSE optimo

actualizar_parametros(cfg, nuevos_parametros) ==
    [ cfg EXCEPT
        !.trend_threshold_degrees = nuevos_parametros.trend_threshold_degrees,
        !.min_trend_strength_degrees = nuevos_parametros.min_trend_strength_degrees,
        !.entry_margin = nuevos_parametros.entry_margin ]

(* total_seconds() / 7200 >= reevaluacion_horas, with time in minutes *)
DebeReoptimizar(b, cfg, t) ==
    \/ b.operaciones_desde_optimizacion >= REOPT_OPERACIONES
    \/ t - b.ultima_optimizacion >= 120 * Get(cfg, "reevaluacion_horas", 24)

reoptimizar_periodicamente(v, b, cfg, t, n_datos, optimo) ==
    LET nuevos_parametros ==
            IF OptimizadorDisponible(v)
            THEN buscar_mejores_parametros(
                     n_datos, Get(cfg, "min_samples_optimizacion", MIN_SAMPLES_REOPT),
                     optimo)
            ELSE NoParametros
    IN
    IF DebeReoptimizar(b, cfg, t) /\ nuevos_parametros # NoParametros
    THEN [ bot |-> [b EXCEPT !.ultima_optimizacion = t,
                             !.operaciones_desde_optimizacion = 0],
           config |-> actualizar_parametros(cfg, nuevos_parametros) ]
    ELSE [ bot |-> b, config |-> cfg ]

(* the optimizer run of __init__ (auto_optimize is on) *)
ConfigTrasInit(v, cfg, n_datos, optimo) ==
    LET parametros_optimizados ==
            IF OptimizadorDisponible(v)
            THEN buscar_mejores_parametros(
                     n_datos, Get(cfg, "min_samples_optimizacion", MIN_SAMPLES_INIT),
                     optimo)
            ELSE NoParametros
    IN
    IF parametros_optimizados # NoParametros
    THEN [ cfg EXCEPT
             !.trend_threshold_degrees = parametros_optimizados.trend_threshold_degrees,
             !.min_trend_strength_degrees =
                 parametros_optimizados.min_trend_strength_degrees,
             !.entry_margin = parametros_optimizados.entry_margin ]
    ELSE cfg

(* o: the last run of the optimizer that had enough data, [filas,         *)
(* parametros]                                                            *)
NoOptimo == [filas |-> -1, parametros |-> NoParametros]

OptimosPosibles(v, o, n_datos, min_samples) ==
    IF ~OptimizadorDisponible(v) \/ n_datos = 0 \/ n_datos < min_samples
    THEN {NoParametros}
    ELSE IF o.filas = n_datos THEN {o.parametros}
    ELSE CombinacionesOptimizador

OptimoTras(o, n_datos, optimo) ==
    IF optimo = NoParametros THEN o ELSE [filas |-> n_datos, parametros |-> optimo]

(* random.random() < 0.1: the draw matters only when a re-optimization is *)
(* due                                                                    *)
AzarReoptimizar(b, cfg, t) ==
    IF DebeReoptimizar(b, cfg, t) THEN BOOLEAN ELSE {FALSE}

----------------------------------------------------------------------------
(* What the bot reads from outside in one cycle *)

Steps == {30, 90}
MaxReinicios == 1

Lectura(calidad, canal, pos, stoch) ==
    [ disponible |-> TRUE,
      velas |-> 100,
      angulo |-> calidad[1],
      pearson |-> calidad[2],
      soporte |-> canal[1],
      resistencia |-> canal[2],
      precio |-> IF pos = "bajo" THEN canal[1] - 250
                 ELSE IF pos = "soporte" THEN canal[1]
                 ELSE IF pos = "soporte+" THEN canal[1] + 250
                 ELSE IF pos = "soporte++" THEN canal[1] + 500
                 ELSE IF pos = "resistencia--" THEN canal[2] - 500
                 ELSE IF pos = "resistencia-" THEN canal[2] - 250
                 ELSE IF pos = "resistencia" THEN canal[2]
                 ELSE canal[2] + 250,
      stoch_k |-> stoch[1],
      stoch_d |-> stoch[2] ]

SinDatos ==
    [ disponible |-> FALSE, velas |-> 0, angulo |-> 0, pearson |-> 0, soporte |-> 0,
      resistencia |-> 0, precio |-> 0, stoch_k |-> 50, stoch_d |-> 50 ]

(* angle and Pearson coefficient of one regression have the same sign *)
CanalAncho == <<250000, 262500>>
CanalEstrecho == <<250000, 255000>>
Alcista == <<16, 70>>
Bajista == <<-16, -70>>
Debil == <<2, 70>>

(* The readings of the long runs: one for each way a scan can go *)
MercadosBase ==
    { Lectura(Alcista, CanalAncho, "bajo", <<30, 30>>),
      Lectura(Bajista, CanalAncho, "sobre", <<70, 70>>),
      Lectura(Alcista, CanalEstrecho, "bajo", <<30, 30>>),
      Lectura(Alcista, CanalAncho, "soporte", <<30, 30>>),
      Lectura(Bajista, CanalAncho, "resistencia", <<70, 70>>),
      Lectura(Alcista, CanalEstrecho, "soporte", <<30, 30>>),
      Lectura(Bajista, CanalEstrecho, "resistencia", <<70, 70>>),
      Lectura(Alcista, CanalAncho, "soporte", <<70, 70>>),
      Lectura(Debil, CanalAncho, "soporte", <<30, 30>>),
      Lectura(Debil, CanalAncho, "resistencia", <<70, 70>>) }

(* readings with one candle less than the configuration asks for *)
PocasVelas ==
    { [Lectura(Alcista, CanalAncho, "bajo", <<30, 30>>) EXCEPT !.velas = 99],
      [Lectura(Alcista, CanalAncho, "soporte", <<30, 30>>) EXCEPT !.velas = 99] }

PreciosCierre == {245000, 250000, 256000, 270000}

SinCierre == [posicion_bingx |-> TRUE, precio |-> 0, escritura_ok |-> TRUE]

(* a ledger that cannot be written is drawn only where a row is written *)
EntradasCierre(b, v, simbolo) ==
    IF simbolo \notin DOMAIN b.operaciones_activas THEN {SinCierre}
    ELSE
    { x \in (IF v = "estrategia" THEN {} ELSE {SinCierre})
            \cup { [posicion_bingx |-> FALSE, precio |-> p, escritura_ok |-> ok] :
                      p \in PreciosCierre \cup {0}, ok \in BOOLEAN } :
        x.escritura_ok \/ ResultadoCierre(b, v, simbolo, x) # "NONE" }

SinLectura ==
    [posicion_bingx |-> FALSE, busqueda |-> NoConfig, mercado |-> SinDatos, ejecucion_ok |-> TRUE]

EntradasScan(b, v, t, simbolo, M) ==
    IF simbolo \in DOMAIN b.operaciones_activas THEN {SinLectura}
    ELSE
      (IF v = "web" THEN {[SinLectura EXCEPT !.posicion_bingx = TRUE]} ELSE {})
      \cup
      (IF ConfigEnCache(b, t, simbolo) THEN {} ELSE {SinLectura})
      \cup
      { [posicion_bingx |-> FALSE, busqueda |-> bq, mercado |-> m, ejecucion_ok |-> ok] :
          bq \in (IF ConfigEnCache(b, t, simbolo) THEN {NoConfig} ELSE Configs),
          m \in M \cup {SinDatos} \cup PocasVelas,
          ok \in (IF v = "web" /\ simbolo \in DOMAIN b.esperando_reentry
                  THEN BOOLEAN ELSE {TRUE}) }

(* One input per symbol: the functions f with f[s] in E(s) *)
RECURSIVE EntradasCierreTodas(_, _, _)
EntradasCierreTodas(b, v, i) ==
    IF i > Len(Symbols) THEN {EmptyDict}
    ELSE { Put(f, Symbols[i], x) :
             f \in EntradasCierreTodas(b, v, i + 1),
             x \in EntradasCierre(b, v, Symbols[i]) }

RECURSIVE EntradasScanTodas(_, _, _, _, _)
EntradasScanTodas(b, v, t, M, i) ==
    IF i > Len(Symbols) THEN {EmptyDict}
    ELSE { Put(f, Symbols[i], x) :
             f \in EntradasScanTodas(b, v, t, M, i + 1),
             x \in EntradasScan(b, v, t, Symbols[i], M) }

----------------------------------------------------------------------------
(* escanear_mercado: the loop over config['symbols'].                     *)
(* st = [bot, info]; info[s] is the result of the iteration for s.        *)

RECURSIVE escanear_mercado(_, _, _, _, _, _)
escanear_mercado(st, v, cfg, t, ins, i) ==
    IF i > Len(Symbols) THEN st
    ELSE
    LET simbolo == Symbols[i]
        r == EscanearSimbolo(st.bot, v, cfg, t, simbolo, ins[simbolo])
    IN escanear_mercado([bot |-> r.bot, info |-> Put(st.info, simbolo, r)],
                        v, cfg, t, ins, i + 1)

----------------------------------------------------------------------------
(* History of the last cycle, per symbol *)

NoPend == [tipo |-> "NONE"]
NoOp == [tipo |-> "NONE"]

UltInicial ==
    [ pend_antes |-> NoPend,      \* esperando_reentry[s] when the cycle began
      op_antes |-> NoOp,          \* operaciones_activas[s] when the cycle began
      cin |-> SinCierre,          \* what the close check read
      cierre |-> "NONE",          \* result of the close check
      activa_scan |-> FALSE,      \* s had an operation when the scan began
      lectura |-> SinLectura,     \* what the scan read (the market reading
                                  \* is kept under SpecDetalle only)
      paso |-> "inicio",          \* where the scan iteration ended
      breakout |-> "NONE",
      reentry |-> "NONE",
      niveles |-> NoNiveles,
      t_senal |-> -1,             \* time of the last trade signal
      t_senal_prev |-> -1,        \* time of the one before it
      perdida |-> FALSE,          \* a restart since t_senal lost its record
      perdida_prev |-> FALSE,     \* the same between t_senal_prev and t_senal
      reinicio |-> FALSE,         \* the bot was started again since t_senal
      reinicio_prev |-> FALSE,    \* the same between t_senal_prev and t_senal
      t_breakout |-> -1,          \* time of the last registered breakout
      t_breakout_prev |-> -1 ]

EjecucionLeida(paso) == paso \in {"senal", "no_ejecutada"}

(* the cycle ended in the close check: only what the check read and did *)
UltAbortado(u, simbolo, b0, b1, cin) ==
    [ u EXCEPT
        !.pend_antes = Get(b0.esperando_reentry, simbolo, NoPend),
        !.op_antes = Get(b0.operaciones_activas, simbolo, NoOp),
        !.cin = cin,
        !.cierre = IF simbolo \in DOMAIN b0.operaciones_activas
                      /\ simbolo \notin DOMAIN b1.operaciones_activas
                   THEN "CERRADA" ELSE "NONE",
        !.activa_scan = FALSE,
        !.lectura = SinLectura,
        !.paso = "abortado",
        !.breakout = "NONE",
        !.reentry = "NONE",
        !.niveles = NoNiveles ]

UltCiclo(u, simbolo, b0, b1, t, cin, in, r, detalle) ==
    [ u EXCEPT
        !.pend_antes = Get(b0.esperando_reentry, simbolo, NoPend),
        !.op_antes = Get(b0.operaciones_activas, simbolo, NoOp),
        !.cin = cin,
        !.cierre = IF simbolo \in DOMAIN b0.operaciones_activas
                      /\ simbolo \notin DOMAIN b1.operaciones_activas
                   THEN "CERRADA" ELSE "NONE",
        !.activa_scan = simbolo \in DOMAIN b1.operaciones_activas,
        !.lectura = [in EXCEPT
                       !.ejecucion_ok = IF EjecucionLeida(r.paso) THEN @ ELSE TRUE,
                       !.mercado = IF detalle THEN @ ELSE SinDatos],
        !.paso = r.paso,
        !.breakout = r.breakout,
        !.reentry = r.reentry,
        !.niveles = r.niveles,
        !.t_senal = IF r.paso = "senal" THEN t ELSE @,
        !.t_senal_prev = IF r.paso = "senal" THEN u.t_senal ELSE @,
        !.perdida = IF r.paso = "senal" THEN FALSE ELSE @,
        !.perdida_prev = IF r.paso = "senal" THEN u.perdida ELSE @,
        !.reinicio = IF r.paso = "senal" THEN FALSE ELSE @,
        !.reinicio_prev = IF r.paso = "senal" THEN u.reinicio ELSE @,
        !.t_breakout = IF r.paso = "breakout" THEN t ELSE @,
        !.t_breakout_prev = IF r.paso = "breakout" THEN u.t_breakout ELSE @ ]

----------------------------------------------------------------------------
(* Actions *)

ConfigInicial ==
    [ min_channel_width_percent |-> MIN_CHANNEL_WIDTH_PERCENT_X100,
      trend_threshold_degrees |-> 16,
      min_trend_strength_degrees |-> MIN_TREND_STRENGTH_DEGREES,
      entry_margin |-> 10,
      min_rr_ratio |-> MIN_RR_RATIO_X10,
      min_samples_optimizacion |-> 30,
      reevaluacion_horas |-> 24,
      symbols |-> <<"BTCUSDT">> ]

Init ==
    /\ variant \in Variantes
    /\ now = 0
    /\ config = ConfigInicial
    /\ bot = TradingBotInit(NoFile, 0)
    /\ estado_file = NoFile
    /\ archivo_log = inicializar_log(NoLog).filas
    /\ log_file = [ existe |-> inicializar_log(NoLog).existe,
                    cabeceras |-> inicializar_log(NoLog).cabeceras,
                    previas |-> 0 ]
    /\ ult = [ fase |-> "inicio", ciclos |-> 0, reinicios |-> 0, cerradas |-> 0, opt |-> NoOptimo, leido |-> NoFile,
               sim |-> [s \in SymbolSet |-> UltInicial] ]

(* ejecutar_analisis: re-optimization one time in ten, close check, save, *)
(* scan.  M: the market readings the scan may see, Pasos: the time        *)
(* elapsed since the previous cycle.  An exception that leaves the close  *)
(* check leaves ejecutar_analisis too: nothing is saved, nothing is       *)
(* scanned, and the loop goes on with the next cycle.                     *)
Ciclo(M, Pasos, detalle) ==
    \E d \in Pasos :
      /\ now + d <= MaxTime
      /\ LET t == now + d
             n_datos == FilasLedger(log_file, archivo_log)
         IN
         \E azar \in AzarReoptimizar(bot, config, t) :
         \E optimo \in IF azar
                       THEN OptimosPosibles(variant, ult.opt, n_datos,
                                Get(config, "min_samples_optimizacion", MIN_SAMPLES_REOPT))
                       ELSE {NoParametros} :
         LET ro == IF azar
                   THEN reoptimizar_periodicamente(variant, bot, config, t, n_datos, optimo)
                   ELSE [bot |-> bot, config |-> config]
         IN
         \E cins \in EntradasCierreTodas(ro.bot, variant, 1) :
           LET st1 == verificar_cierre_operaciones(
                          [bot |-> ro.bot, log |-> archivo_log, error |-> FALSE],
                          variant, t, cins, OrdenActivas(ro.bot))
               guardado == guardar_estado(st1.bot, t)
               cerradas == Cardinality((DOMAIN bot.operaciones_activas)
                                           \ DOMAIN st1.bot.operaciones_activas)
           IN
           /\ Len(st1.log) <= MaxLedger
           /\ now' = t
           /\ config' = ro.config
           /\ archivo_log' = st1.log
           /\ UNCHANGED <<variant, log_file>>
           /\ \/ /\ st1.error
                 /\ bot' = st1.bot
                 /\ estado_file' = estado_file
                 /\ ult' = [ ult EXCEPT
                               !.fase = "abortado",
                               !.cerradas = @ + cerradas,
                               !.opt = OptimoTras(@, n_datos, optimo),
                               !.sim = [s \in SymbolSet |->
                                          UltAbortado(ult.sim[s], s, bot, st1.bot,
                                                      cins[s])] ]
              \/ /\ ~st1.error
                 /\ \E ins \in EntradasScanTodas(st1.bot, variant, t, M, 1) :
                      LET sc == escanear_mercado([bot |-> st1.bot, info |-> EmptyDict],
                                                 variant, ro.config, t, ins, 1)
                      IN
                      /\ bot' = sc.bot
                      /\ estado_file' = guardado
                      /\ ult' = [ ult EXCEPT
                                    !.fase = "ciclo",
                                    !.ciclos = IF @ < 2 THEN @ + 1 ELSE @,
                                    !.cerradas = @ + cerradas,
                                    !.opt = OptimoTras(@, n_datos, optimo),
                                    !.sim = [s \in SymbolSet |->
                                               UltCiclo(ult.sim[s], s, bot, st1.bot, t,
                                                        cins[s], ins[s], sc.info[s],
                                                        detalle)] ]

EjecutarAnalisis == Ciclo(MercadosBase, Steps, FALSE)

PerdidaTras(u, f, simbolo) ==
    /\ u.t_senal >= 0
    /\ \/ ~f.existe
       \/ ~f.legible
       \/ simbolo \notin DOMAIN f.breakout_history
       \/ f.breakout_history[simbolo] # isoformat(u.t_senal)

(* The bot is constructed anew from the configuration of the environment *)
ReinicioCon(f) ==
    /\ ult.reinicios < MaxReinicios
    /\ ult.fase \in {"ciclo", "abortado"}
    /\ bot' = TradingBotInit(f, now)
    /\ estado_file' = f
    /\ LET n_datos == FilasLedger(log_file, archivo_log) IN
       \E optimo \in OptimosPosibles(variant, ult.opt, n_datos,
                         Get(ConfigInicial, "min_samples_optimizacion", MIN_SAMPLES_INIT)) :
         /\ config' = ConfigTrasInit(variant, ConfigInicial, n_datos, optimo)
         /\ ult' = [ ult EXCEPT
                       !.fase = "reinicio",
                       !.reinicios = @ + 1,
                       !.opt = OptimoTras(@, n_datos, optimo),
                       !.sim = [s \in SymbolSet |->
                                  [@[s] EXCEPT
                                     !.perdida = @ \/ PerdidaTras(ult.sim[s], f, s),
                                     !.reinicio = ult.sim[s].t_senal >= 0]] ]
    /\ LET lf == inicializar_log([ existe |-> log_file.existe,
                                   cabeceras |-> log_file.cabeceras,
                                   filas |-> archivo_log ])
       IN /\ archivo_log' = lf.filas
          /\ log_file' = [ existe |-> lf.existe, cabeceras |-> lf.cabeceras,
                           previas |-> log_file.previas ]
    /\ UNCHANGED <<variant, now>>

(* The process dies and is started again: the file is as the last cycle   *)
(* left it.                                                               *)
Reiniciar == ReinicioCon(estado_file)

(* The loop is interrupted (iniciar saves the state), then the bot is     *)
(* started again.                                                         *)
DetenerYReiniciar == ReinicioCon(guardar_estado(bot, now))

Next ==
    \/ EjecutarAnalisis
    \/ Reiniciar
    \/ DetenerYReiniciar

Spec == Init /\ [][Next]_vars

----------------------------------------------------------------------------
(* The detector on a fine grid of readings: one cycle that may register a  *)
(* breakout, then one cycle that reads any reading of MercadosDetalle.     *)

MercadosPrep ==
    { Lectura(Alcista, CanalAncho, "bajo", <<30, 30>>),
      Lectura(Bajista, CanalAncho, "sobre", <<70, 70>>),
      Lectura(Debil, CanalAncho, "soporte", <<30, 30>>) }

AngulosDetalle == {-16, -15, 0, 2, 3, 15, 16}
PearsonDetalle == {39, 63, 64}
CalidadesDetalle ==
    { <<a, IF a > 0 THEN p ELSE IF a < 0 THEN -p ELSE 0>> :
        a \in AngulosDetalle, p \in PearsonDetalle }
CanalesDetalle ==
    { CanalAncho, CanalEstrecho, <<245000, 255000>>,
      <<249750, 262750>>, <<237750, 250250>> }
PosicionesDetalle ==
    { "bajo", "soporte", "soporte+", "soporte++",
      "resistencia--", "resistencia-", "resistencia", "sobre" }
StochsDetalle ==
    { <<30, 30>>, <<31, 30>>, <<30, 31>>, <<70, 70>>, <<69, 70>>, <<70, 69>> }

MercadosDetalle ==
    { Lectura(q, c, p, k) : q \in CalidadesDetalle, c \in CanalesDetalle,
                            p \in PosicionesDetalle, k \in StochsDetalle }

EjecutarAnalisisDetalle ==
    IF ult.ciclos = 0
    THEN Ciclo(MercadosPrep, {30}, TRUE)
    ELSE ult.ciclos = 1 /\ Ciclo(MercadosDetalle, Steps, TRUE)

NextDetalle == EjecutarAnalisisDetalle

SpecDetalle == Init /\ [][NextDetalle]_vars

----------------------------------------------------------------------------
(* The risk level calculator alone: Init draws a side, a channel, a price  *)
(* and a configuration; the one action applies calcular_niveles_entrada.   *)
(* Prices are multiples of 250, which keeps 2 % and the ratios exact.      *)
(* The reading is kept in ult.sim[s].lectura.mercado, the side in          *)
(* ult.sim[s].reentry and the result in ult.sim[s].niveles.                *)

ConfigsNiveles ==
    { ConfigInicial,
      [ConfigInicial EXCEPT !.min_rr_ratio = 20],
      [ k \in (DOMAIN ConfigInicial) \ {"min_rr_ratio"} |-> ConfigInicial[k] ] }

CanalesNiveles == CanalesDetalle \cup {<<250000, 250000>>}

LecturasNiveles ==
    { Lectura(Alcista, c, p, <<50, 50>>) :
        c \in CanalesNiveles, p \in PosicionesDetalle }
    \cup { [Lectura(Alcista, c, "sobre", <<50, 50>>)
              EXCEPT !.precio = (c[2] * (100 + SL_PORCENTAJE_X100)) \div 100] :
             c \in { x \in CanalesNiveles : (x[2] * 102) % 25000 = 0 } }

InitNiveles ==
    /\ variant = "niveles"
    /\ now = 0
    /\ config \in ConfigsNiveles
    /\ bot = BotNuevo
    /\ estado_file = NoFile
    /\ archivo_log = <<>>
    /\ log_file = [existe |-> FALSE, cabeceras |-> 0, previas |-> 0]
    /\ \E m \in LecturasNiveles, tipo \in {"LONG", "SHORT"} :
         ult = [ fase |-> "inicio", ciclos |-> 0, reinicios |-> 0, cerradas |-> 0, opt |-> NoOptimo, leido |-> NoFile,
                 sim |-> [s \in SymbolSet |->
                            [UltInicial EXCEPT !.lectura.mercado = m,
                                               !.reentry = tipo]] ]

CalcularNiveles ==
    /\ ult.fase = "inicio"
    /\ ult' = [ ult EXCEPT
                  !.fase = "niveles",
                  !.sim = [s \in SymbolSet |->
                             [@[s] EXCEPT !.niveles =
                                calcular_niveles_entrada(
                                    ult.sim[s].reentry,
                                    calcular_canal_regresion_config(ult.sim[s].lectura.mercado),
                                    ult.sim[s].lectura.mercado.precio,
                                    config)]] ]
    /\ UNCHANGED <<variant, now, config, bot, estado_file, archivo_log, log_file>>

NextNiveles == CalcularNiveles

SpecNiveles == InitNiveles /\ [][NextNiveles]_vars

----------------------------------------------------------------------------
(* OperationManager: the operations it is given and its own close check.   *)
(* ult.cerradas counts the operations it has removed.                      *)

OperacionesGestor ==
    { [ tipo |-> "LONG", precio_entrada |-> 250000, take_profit |-> 262500,
        stop_loss |-> 245000 ],
      [ tipo |-> "SHORT", precio_entrada |-> 262500, take_profit |-> 250000,
        stop_loss |-> 267750 ] }

OperacionGestor(o, t) ==
    [ tipo |-> o.tipo, precio_entrada |-> o.precio_entrada,
      take_profit |-> o.take_profit, stop_loss |-> o.stop_loss,
      timestamp_entrada |-> t, angulo_tendencia |-> 0, pearson |-> 0,
      r2_score |-> 0, ancho_canal_porcentual |-> 0, nivel_fuerza |-> 1,
      timeframe_utilizado |-> "5m", velas_utilizadas |-> 100,
      stoch_k |-> 0, stoch_d |-> 0, breakout_usado |-> FALSE ]

(* registrar_operacion of the manager: a failed write is logged and the    *)
(* caller goes on                                                          *)
registrar_operacion_gestor(log, fila, escritura_ok) ==
    IF escritura_ok THEN Append(log, fila) ELSE log

eliminar_operacion_activa(ops, simbolo) == Del(ops, simbolo)

(* st = [ops, log]; gin[s] = [precio (0: None), escritura_ok] *)
RECURSIVE verificar_cierre_gestor(_, _, _, _)
verificar_cierre_gestor(st, t, gin, i) ==
    IF i > Len(Symbols) THEN st
    ELSE
    LET simbolo == Symbols[i]
        res == IF simbolo \notin DOMAIN st.ops \/ gin[simbolo].precio = 0 THEN "NONE"
               ELSE ResultadoPorPrecio(st.ops[simbolo], gin[simbolo].precio)
        st2 == IF res = "NONE" THEN st
               ELSE [ ops |-> eliminar_operacion_activa(st.ops, simbolo),
                      log |-> registrar_operacion_gestor(st.log,
                                  FilaLedger(t, simbolo, st.ops[simbolo],
                                             gin[simbolo].precio, res),
                                  gin[simbolo].escritura_ok) ]
    IN verificar_cierre_gestor(st2, t, gin, i + 1)

InitGestor ==
    /\ variant = "gestor"
    /\ now = 0
    /\ config = ConfigInicial
    /\ bot = BotNuevo
    /\ estado_file = NoFile
    /\ archivo_log = inicializar_log(NoLog).filas
    /\ log_file = [ existe |-> inicializar_log(NoLog).existe,
                    cabeceras |-> inicializar_log(NoLog).cabeceras,
                    previas |-> 0 ]
    /\ ult = [ fase |-> "inicio", ciclos |-> 0, reinicios |-> 0, cerradas |-> 0, opt |-> NoOptimo, leido |-> NoFile,
               sim |-> [s \in SymbolSet |-> UltInicial] ]

AgregarOperacionActiva ==
    \E s \in SymbolSet, o \in OperacionesGestor :
      /\ s \notin DOMAIN bot.operaciones_activas
      /\ bot' = [bot EXCEPT !.operaciones_activas = Put(@, s, OperacionGestor(o, now))]
      /\ ult' = [ult EXCEPT !.fase = "agregada"]
      /\ UNCHANGED <<variant, now, config, estado_file, archivo_log, log_file>>

VerificarCierreGestor ==
    \E d \in Steps :
      /\ now + d <= MaxTime
      /\ \E gin \in [SymbolSet -> [precio : PreciosCierre \cup {0}, escritura_ok : BOOLEAN]] :
           LET st == verificar_cierre_gestor(
                         [ops |-> bot.operaciones_activas, log |-> archivo_log],
                         now + d, gin, 1)
           IN
           /\ \A s \in SymbolSet :
                  gin[s].escritura_ok
                  \/ (s \in DOMAIN bot.operaciones_activas /\ s \notin DOMAIN st.ops)
           /\ ult.cerradas < MaxLedger
           /\ now' = now + d
           /\ bot' = [bot EXCEPT !.operaciones_activas = st.ops]
           /\ archivo_log' = st.log
           /\ ult' = [ult EXCEPT
                         !.fase = "cierre_gestor",
                         !.cerradas = @ + Cardinality(
                             (DOMAIN bot.operaciones_activas) \ DOMAIN st.ops)]
           /\ UNCHANGED <<variant, config, estado_file, log_file>>

NextGestor ==
    \/ AgregarOperacionActiva
    \/ VerificarCierreGestor

SpecGestor == InitGestor /\ [][NextGestor]_vars

----------------------------------------------------------------------------
(* The parameter set over sessions: the bot is started on the ledger and   *)
(* the state file that earlier sessions left, runs cycles and is started   *)
(* again.                                                                  *)

FilasPrevias == {MIN_SAMPLES_REOPT - 1, MIN_SAMPLES_REOPT}

EstadosPrevios ==
    { NoFile,
      guardar_estado([BotNuevo EXCEPT
                         !.operaciones_desde_optimizacion = REOPT_OPERACIONES - 1,
                         !.total_operaciones = REOPT_OPERACIONES - 1], 0) }

MercadosParametros ==
    { Lectura(Alcista, CanalAncho, "bajo", <<30, 30>>),
      Lectura(Alcista, CanalAncho, "soporte", <<30, 30>>) }

InitParametros ==
    /\ variant \in Variantes
    /\ now = 0
    /\ archivo_log = <<>>
    /\ \E previas \in FilasPrevias, f \in EstadosPrevios :
       \E optimo \in OptimosPosibles(variant, NoOptimo, previas,
                         Get(ConfigInicial, "min_samples_optimizacion", MIN_SAMPLES_INIT)) :
         /\ config = ConfigTrasInit(variant, ConfigInicial, previas, optimo)
         /\ bot = TradingBotInit(f, 0)
         /\ estado_file = f
         /\ log_file = [existe |-> TRUE, cabeceras |-> 1, previas |-> previas]
         /\ ult = [ fase |-> "inicio", ciclos |-> 0, reinicios |-> 0, cerradas |-> 0,
                    opt |-> OptimoTras(NoOptimo, previas, optimo),
                    leido |-> NoFile,
                    sim |-> [s \in SymbolSet |-> UltInicial] ]

EjecutarAnalisisParametros == Ciclo(MercadosParametros, Steps, FALSE)

NextParametros ==
    \/ EjecutarAnalisisParametros
    \/ Reiniciar
    \/ DetenerYReiniciar

SpecParametros == InitParametros /\ [][NextParametros]_vars

----------------------------------------------------------------------------
(* Start-up from a state file that is missing, is not a JSON document or   *)
(* holds a string that is not an ISO date in one place.                    *)

(* f is a document written by guardar_estado *)
ArchivosDanados(f) ==
    { Ilegible, [f EXCEPT !.ultima_optimizacion = FechaMalformada] }
    \cup { [f EXCEPT !.ultima_busqueda_config[k] = FechaMalformada] :
             k \in DOMAIN f.ultima_busqueda_config }
    \cup { [f EXCEPT !.breakout_history[k] = FechaMalformada] :
             k \in DOMAIN f.breakout_history }
    \cup { [f EXCEPT !.esperando_reentry[k].timestamp = FechaMalformada] :
             k \in DOMAIN f.esperando_reentry }
    \cup { [f EXCEPT !.breakouts_detectados[k].timestamp = FechaMalformada] :
             k \in DOMAIN f.breakouts_detectados }

(* The loop is stopped and the bot is started on what became of the saved  *)
(* file: the file itself, no file, or a damaged file.                      *)
IniciarConArchivo ==
    \E f \in {guardar_estado(bot, now), NoFile}
                 \cup ArchivosDanados(guardar_estado(bot, now)) :
        ReinicioCon(f)

EjecutarAnalisisEstado == Ciclo(MercadosParametros, Steps, FALSE)

NextEstado ==
    \/ EjecutarAnalisisEstado
    \/ IniciarConArchivo

SpecEstado == Init /\ [][NextEstado]_vars

----------------------------------------------------------------------------
(* guardar_estado step by step, with a concurrent reader of the file.      *)
(* open(self.estado_file, 'w') truncates the file in place; json.dump      *)
(* writes through the file buffer, which reaches the file when it fills    *)
(* and when the with block closes the file.  The cycle is split at these   *)
(* points; the history per symbol is not kept in this specification.       *)

ArchivoVacio == [existe |-> TRUE, legible |-> FALSE, bytes |-> "ninguno"]
ArchivoParcial == [existe |-> TRUE, legible |-> FALSE, bytes |-> "parte"]

(* ejecutar_analisis up to the open() of guardar_estado *)
AbrirEstado ==
    /\ ult.fase \in {"inicio", "ciclo", "abortado"}
    /\ \E d \in Steps :
         /\ now + d <= MaxTime
         /\ LET t == now + d
                n_datos == FilasLedger(log_file, archivo_log)
            IN
            \E azar \in AzarReoptimizar(bot, config, t) :
            \E optimo \in IF azar
                          THEN OptimosPosibles(variant, ult.opt, n_datos,
                                   Get(config, "min_samples_optimizacion", MIN_SAMPLES_REOPT))
                          ELSE {NoParametros} :
            LET ro == IF azar
                      THEN reoptimizar_periodicamente(variant, bot, config, t, n_datos, optimo)
                      ELSE [bot |-> bot, config |-> config]
            IN
            \E cins \in EntradasCierreTodas(ro.bot, variant, 1) :
              LET st1 == verificar_cierre_operaciones(
                             [bot |-> ro.bot, log |-> archivo_log, error |-> FALSE],
                             variant, t, cins, OrdenActivas(ro.bot))
              IN
              /\ Len(st1.log) <= MaxLedger
              /\ now' = t
              /\ config' = ro.config
              /\ bot' = st1.bot
              /\ archivo_log' = st1.log
              /\ estado_file' = IF st1.error THEN estado_file ELSE ArchivoVacio
              /\ ult' = [ ult EXCEPT
                            !.fase = IF st1.error THEN "abortado" ELSE "abierto",
                            !.cerradas = @ + Cardinality(
                                (DOMAIN bot.operaciones_activas)
                                    \ DOMAIN st1.bot.operaciones_activas),
                            !.opt = OptimoTras(@, n_datos, optimo) ]
              /\ UNCHANGED <<variant, log_file>>

(* the buffer fills before the document is complete *)
VolcarParte ==
    /\ ult.fase = "abierto"
    /\ estado_file' = ArchivoParcial
    /\ ult' = [ult EXCEPT !.fase = "parcial"]
    /\ UNCHANGED <<variant, now, config, bot, archivo_log, log_file>>

(* the file is closed with the whole document in it; then the scan *)
CerrarEstadoYEscanear ==
    /\ ult.fase \in {"abierto", "parcial"}
    /\ \E ins \in EntradasScanTodas(bot, variant, now, MercadosParametros, 1) :
         LET sc == escanear_mercado([bot |-> bot, info |-> EmptyDict],
                                    variant, config, now, ins, 1)
         IN
         /\ bot' = sc.bot
         /\ estado_file' = guardar_estado(bot, now)
         /\ ult' = [ ult EXCEPT !.fase = "ciclo",
                                !.ciclos = IF @ < 2 THEN @ + 1 ELSE @ ]
    /\ UNCHANGED <<variant, now, config, archivo_log, log_file>>

(* another thread or process opens the file and reads it *)
LeerEstado ==
    /\ ult' = [ult EXCEPT !.leido = estado_file]
    /\ UNCHANGED <<variant, now, config, bot, estado_file, archivo_log, log_file>>

NextGuardado ==
    \/ AbrirEstado
    \/ VolcarParte
    \/ CerrarEstadoYEscanear
    \/ LeerEstado

SpecGuardado == Init /\ [][NextGuardado]_vars

----------------------------------------------------------------------------
(* Two symbols in config['symbols']: what one symbol's failure does to the *)
(* other.                                                                  *)

ConfigDosSimbolos == [ConfigInicial EXCEPT !.symbols = <<"BTCUSDT", "ETHUSDT">>]

InitSimbolos ==
    /\ variant \in Variantes
    /\ now = 0
    /\ config = ConfigDosSimbolos
    /\ bot = TradingBotInit(NoFile, 0)
    /\ estado_file = NoFile
    /\ archivo_log = inicializar_log(NoLog).filas
    /\ log_file = [ existe |-> inicializar_log(NoLog).existe,
                    cabeceras |-> inicializar_log(NoLog).cabeceras,
                    previas |-> 0 ]
    /\ ult = [ fase |-> "inicio", ciclos |-> 0, reinicios |-> 0, cerradas |-> 0,
               opt |-> NoOptimo, leido |-> NoFile,
               sim |-> [s \in SymbolSet |-> UltInicial] ]

(* the first cycles only: a breakout, its reentry and the close fit in *)
MaxTimeSimbolos == 90

EjecutarAnalisisSimbolos ==
    /\ now + 30 <= MaxTimeSimbolos
    /\ Ciclo(MercadosParametros, {30}, FALSE)

NextSimbolos == EjecutarAnalisisSimbolos

SpecSimbolos == InitSimbolos /\ [][NextSimbolos]_vars

----------------------------------------------------------------------------
(* app.py: the EMA 4/9 service.  The analysis is run by the handler of the *)
(* route /analizar, in the thread of the request; the server's threads run *)
(* handlers of several requests at once.  One step of a handler is the     *)
(* analysis of one symbol (its downloads block on the network).            *)

SYMBOLS == <<"DOGEUSDT", "XRPUSDT", "ETHUSDT", "AVAXUSDT", "TRXUSDT", "XLMUSDT", "SOLUSDT">>
TIMEFRAMES == <<"1m", "3m", "5m", "15m">>
MIN_CONFLUENCIA == 2

Hilos == {1, 2}
MaxPeticiones == 3

ConfigApp == [symbols |-> SYMBOLS, timeframes |-> TIMEFRAMES, min_confluencia |-> MIN_CONFLUENCIA]

(* ultimo_estado, with the list of results given by its length *)
UltimoEstadoInicial ==
    [fecha |-> 0, resultados |-> 1, mensaje |-> "Esperando"]

HiloLibre == [pc |-> "libre", ahora |-> 0, i |-> 0, resultados |-> 0,
              mensaje_general |-> "Sin señales"]

(* descargar_datos + detectar_cruce_ema of one timeframe: no data, a cross *)
(* up, a cross down or no cross in the last candle                         *)
CrucesPosibles == {"sin_datos", "arriba", "abajo", "nada"}

(* the outcome for one symbol from the crosses of its timeframes *)
ResultadoSimbolo(cruces) ==
    LET cruces_compra == Cardinality({k \in DOMAIN cruces : cruces[k] = "arriba"})
        cruces_venta == Cardinality({k \in DOMAIN cruces : cruces[k] = "abajo"})
    IN IF \A k \in DOMAIN cruces : cruces[k] = "sin_datos" THEN "sin_datos"
       ELSE IF cruces_compra >= MIN_CONFLUENCIA THEN "compra"
       ELSE IF cruces_venta >= MIN_CONFLUENCIA THEN "venta"
       ELSE "sin_confluencia"

InitAnalizar ==
    /\ variant = "app"
    /\ now = 0
    /\ config = ConfigApp
    /\ bot = [hilos |-> [h \in Hilos |-> HiloLibre], ultimo_estado |-> UltimoEstadoInicial]
    /\ estado_file = NoFile
    /\ archivo_log = <<>>
    /\ log_file = [existe |-> FALSE, cabeceras |-> 0, previas |-> 0]
    /\ ult = [ fase |-> "inicio", ciclos |-> 0, reinicios |-> 0, cerradas |-> 0,
               opt |-> NoOptimo, leido |-> NoFile, sim |-> EmptyDict ]

(* GET /analizar reaches a free thread: ejecutar_analisis begins *)
RutaAnalizar ==
    \E h \in Hilos :
      /\ bot.hilos[h].pc = "libre"
      /\ ult.ciclos < MaxPeticiones
      /\ now' = now + 1
      /\ bot' = [bot EXCEPT !.hilos[h] =
                    [pc |-> "analizando", ahora |-> now + 1, i |-> 1, resultados |-> 0,
                     mensaje_general |-> "Sin señales"]]
      /\ ult' = [ult EXCEPT !.fase = "peticion", !.ciclos = @ + 1]
      /\ UNCHANGED <<variant, config, estado_file, archivo_log, log_file>>

(* one turn of the loop over SYMBOLS *)
AnalizarSimbolo ==
    \E h \in Hilos :
      /\ bot.hilos[h].pc = "analizando"
      /\ bot.hilos[h].i <= Len(config.symbols)
      /\ \E cruces \in [1..Len(config.timeframes) -> CrucesPosibles] :
           LET r == ResultadoSimbolo(cruces) IN
           bot' = [bot EXCEPT
                     !.hilos[h].i = @ + 1,
                     !.hilos[h].resultados = @ + 1,
                     !.hilos[h].mensaje_general =
                         IF r \in {"compra", "venta"} THEN "Señal activa" ELSE @]
      /\ ult' = [ult EXCEPT !.fase = "simbolo"]
      /\ UNCHANGED <<variant, now, config, estado_file, archivo_log, log_file>>

(* the end of ejecutar_analisis: ultimo_estado is replaced, the request is *)
(* answered                                                                *)
TerminarAnalisis ==
    \E h \in Hilos :
      /\ bot.hilos[h].pc = "analizando"
      /\ bot.hilos[h].i > Len(config.symbols)
      /\ bot' = [bot EXCEPT
                   !.ultimo_estado = [fecha |-> bot.hilos[h].ahora,
                                      resultados |-> bot.hilos[h].resultados,
                                      mensaje |-> bot.hilos[h].mensaje_general],
                   !.hilos[h] = HiloLibre]
      /\ ult' = [ult EXCEPT !.fase = "respuesta"]
      /\ UNCHANGED <<variant, now, config, estado_file, archivo_log, log_file>>

NextAnalizar ==
    \/ RutaAnalizar
    \/ AnalizarSimbolo
    \/ TerminarAnalisis

SpecAnalizar == InitAnalizar /\ [][NextAnalizar]_vars

----------------------------------------------------------------------------
(* The optimizer on a ledger.  The optimizer does not look at the order of *)
(* the rows: a ledger is given by how many rows of each class it holds.    *)
(* pnl in percent, pearson in hundredths, r2 in ten-thousandths, scores in *)
(* ten-thousandths.                                                        *)

TREND_VALUES == <<3, 5, 8, 10, 12, 15, 18, 20, 25, 30, 35, 40>>
STRENGTH_VALUES == <<3, 5, 8, 10, 12, 15, 18, 20, 25, 30>>
MARGIN_VALUES == <<5, 10, 15, 20, 25, 30, 40, 50, 80, 100>>

ESCALA == 10000
(* mejor_score = -1e9: below every score *)
MEJOR_SCORE_INICIAL == -2000000000

(* what cargar_datos keeps of a row; the last class is of rows that the   *)
(* fixed quality conditions of evaluar_configuracion reject               *)
ClasesFila ==
    << [pnl |-> 4, angulo |-> 16, pearson |-> 80, r2 |-> 6400, nivel_fuerza |-> 3],
       [pnl |-> -2, angulo |-> 16, pearson |-> 80, r2 |-> 6400, nivel_fuerza |-> 3],
       [pnl |-> 1, angulo |-> -5, pearson |-> -70, r2 |-> 4900, nivel_fuerza |-> 2],
       [pnl |-> -2, angulo |-> 2, pearson |-> 30, r2 |-> 900, nivel_fuerza |-> 1] >>

Cuentas == {0, 7, 8, 45}

LedgersOptimizador == [1..Len(ClasesFila) -> Cuentas]

RECURSIVE SumaSec(_, _)
SumaSec(sec, k) == IF k > Len(sec) THEN 0 ELSE sec[k] + SumaSec(sec, k + 1)

(* the sum of F over the rows of the ledger *)
SumaDatos(datos, F(_)) ==
    SumaSec([k \in 1..Len(ClasesFila) |-> datos[k] * F(ClasesFila[k])], 1)

Uno(op) == 1
TotalDatos(datos) == SumaDatos(datos, Uno)

(* the largest r with r * r <= x, for lo * lo <= x < hi * hi *)
RECURSIVE RaizEntera(_, _, _)
RaizEntera(x, lo, hi) ==
    IF hi - lo <= 1 THEN lo
    ELSE LET m == (lo + hi) \div 2 IN
         IF m * m <= x THEN RaizEntera(x, m, hi) ELSE RaizEntera(x, lo, m)

Sobrevive(op, trend_threshold, min_strength) ==
    /\ Abs(op.angulo) >= trend_threshold
    /\ Abs(op.angulo) >= min_strength
    /\ Abs(op.pearson) >= 40
    /\ op.nivel_fuerza >= 2
    /\ op.r2 >= 4000

(* len(filtradas) *)
Filtradas(datos, trend_threshold, min_strength) ==
    LET F(op) == IF Sobrevive(op, trend_threshold, min_strength) THEN 1 ELSE 0
    IN SumaDatos(datos, F)

(* max(8, int(0.15 * len(self.datos))) *)
MinimoMuestras(datos) ==
    LET q == (15 * TotalDatos(datos)) \div 100 IN IF q > 8 THEN q ELSE 8

evaluar_configuracion(datos, trend_threshold, min_strength, entry_margin) ==
    LET Pasa(op) == Sobrevive(op, trend_threshold, min_strength)
        Pnl(op) == IF Pasa(op) THEN op.pnl ELSE 0
        Pnl2(op) == IF Pasa(op) THEN op.pnl * op.pnl ELSE 0
        Gana(op) == IF Pasa(op) /\ op.pnl > 0 THEN 1 ELSE 0
        Calidad(op) == IF Pasa(op) /\ op.r2 >= 6000 /\ op.nivel_fuerza >= 3 THEN 1 ELSE 0
        n == Filtradas(datos, trend_threshold, min_strength)
        suma == SumaDatos(datos, Pnl)
        suma2 == SumaDatos(datos, Pnl2)
        pnl_mean == (suma * 100) \div n
        pnl_std == IF n > 1
                   THEN RaizEntera(((n * suma2 - suma * suma) * 10000) \div (n * (n - 1)),
                                   0, 46341)
                   ELSE 0
        raiz_n == RaizEntera(n * 10000, 0, 46341)
        score == ((pnl_mean - pnl_std \div 2) * SumaDatos(datos, Gana) * raiz_n) \div n
    IN
    IF TotalDatos(datos) = 0 THEN -99999 * ESCALA
    ELSE IF n < MinimoMuestras(datos) THEN (-10000 - n) * ESCALA
    ELSE IF SumaDatos(datos, Calidad) > 0 THEN (score * 12) \div 10
    ELSE score

(* the loop over itertools.product(trend_values, strength_values,         *)
(* margin_values): the last list runs fastest; mejor is replaced only by  *)
(* a strictly higher score.  evaluar_configuracion does not read          *)
(* entry_margin: score is its value for the ten margins of one t and s.   *)
RECURSIVE ProbarMargenes(_, _, _, _, _)
ProbarMargenes(score, t, s, k, mejor) ==
    IF k > Len(MARGIN_VALUES) THEN mejor
    ELSE IF score > mejor.score
         THEN ProbarMargenes(score, t, s, k + 1,
                  [ score |-> score,
                    param |-> [ trend_threshold_degrees |-> t,
                                min_trend_strength_degrees |-> s,
                                entry_margin |-> MARGIN_VALUES[k] ] ])
         ELSE ProbarMargenes(score, t, s, k + 1, mejor)

RECURSIVE ProbarFuerzas(_, _, _, _)
ProbarFuerzas(datos, t, i, mejor) ==
    IF i > Len(STRENGTH_VALUES) THEN mejor
    ELSE LET score == evaluar_configuracion(datos, t, STRENGTH_VALUES[i], MARGIN_VALUES[1])
             tras == ProbarMargenes(score, t, STRENGTH_VALUES[i], 1, mejor)
         IN
         IF tras.score > mejor.score
         THEN ProbarFuerzas(datos, t, i + 1, tras)
         ELSE ProbarFuerzas(datos, t, i + 1, mejor)

RECURSIVE ProbarTendencias(_, _, _)
ProbarTendencias(datos, h, mejor) ==
    IF h > Len(TREND_VALUES) THEN mejor
    ELSE LET tras == ProbarFuerzas(datos, TREND_VALUES[h], 1, mejor) IN
         IF tras.score > mejor.score
         THEN ProbarTendencias(datos, h + 1, tras)
         ELSE ProbarTendencias(datos, h + 1, mejor)

MejorCombinacion(datos) ==
    ProbarTendencias(datos, 1, [score |-> MEJOR_SCORE_INICIAL, param |-> NoParametros])

(* mejores_parametros.json, written when a combination is returned *)
ArchivoMejoresParametros(datos, mejor) ==
    [ existe |-> TRUE, parametros |-> mejor.param, score |-> mejor.score,
      evaluated_samples |-> TotalDatos(datos),
      total_combinations |->
          Len(TREND_VALUES) * Len(STRENGTH_VALUES) * Len(MARGIN_VALUES) ]

ContadoresOptimizador == {0, REOPT_OPERACIONES}

InitOptimizador ==
    /\ variant \in Variantes
    /\ now = 0
    /\ config = ConfigInicial
    /\ \E c \in ContadoresOptimizador :
         bot = [BotNuevo EXCEPT !.operaciones_desde_optimizacion = c,
                                !.total_operaciones = c]
    /\ estado_file = NoFile
    /\ archivo_log = <<>>
    /\ \E datos \in LedgersOptimizador :
         /\ log_file = [existe |-> TRUE, cabeceras |-> 1, previas |-> TotalDatos(datos)]
         /\ ult = [ fase |-> "inicio", ciclos |-> 0, reinicios |-> 0, cerradas |-> 0,
                    opt |-> NoOptimo, leido |-> NoFile, sim |-> EmptyDict,
                    datos |-> datos, debia |-> FALSE, llamado |-> FALSE, resultado |-> NoParametros,
                    score |-> 0, mejores_parametros_json |-> NoFile ]

(* 30 minutes, 24 hours and 48 hours after the last optimization *)
EsperasOptimizador == {30, 1440, 2880}

(* reoptimizar_periodicamente on the ledger ult.datos; mejor is what the *)
(* loop over the grid leaves when the optimizer is run                   *)
ReoptimizarConLedger ==
    \E d \in EsperasOptimizador :
      LET t == now + d
          n_datos == TotalDatos(ult.datos)
          min_samples == Get(config, "min_samples_optimizacion", MIN_SAMPLES_REOPT)
          debia == DebeReoptimizar(bot, config, t)
          llamado == debia /\ OptimizadorDisponible(variant)
          mejor == IF llamado THEN MejorCombinacion(ult.datos)
                   ELSE [score |-> MEJOR_SCORE_INICIAL, param |-> NoParametros]
          resultado == IF llamado
                       THEN buscar_mejores_parametros(n_datos, min_samples, mejor.param)
                       ELSE NoParametros
          r == reoptimizar_periodicamente(variant, bot, config, t, n_datos, mejor.param)
      IN
      /\ ult.fase = "inicio"
      /\ now' = t
      /\ bot' = r.bot
      /\ config' = r.config
      /\ ult' = [ult EXCEPT
                   !.fase = "reoptimizado",
                   !.debia = debia,
                   !.llamado = llamado,
                   !.resultado = resultado,
                   !.score = IF resultado # NoParametros THEN mejor.score ELSE 0,
                   !.mejores_parametros_json =
                       IF resultado # NoParametros
                       THEN ArchivoMejoresParametros(ult.datos, mejor) ELSE @ ]
      /\ UNCHANGED <<variant, estado_file, archivo_log, log_file>>

NextOptimizador == ReoptimizarConLedger

SpecOptimizador == InitOptimizador /\ [][NextOptimizador]_vars

----------------------------------------------------------------------------
(* Live execution on BingX (bot_web_service.py).  bx is the exchange's     *)
(* side for the symbol: whether it holds the position, and the stop prices *)
(* of the STOP_MARKET (sl) and TAKE_PROFIT_MARKET (tp) orders on its book, *)
(* in the order they were accepted.  A request is answered with 'data'     *)
(* (accepted), with an error document, or not at all (the request raises). *)

BingxVacio == [posicion |-> FALSE, sl |-> <<>>, tp |-> <<>>]

RespuestasBingx == {"data", "error", "excepcion"}

Pedido(clase, precio, intento, respuesta) ==
    [clase |-> clase, precio |-> precio, intento |-> intento,
     aceptado |-> respuesta = "data"]

(* Both functions catch every exception and return None; nothing they do  *)
(* reaches the caller as an exception.                                     *)
place_stop_loss_order(bx, stop_price, respuesta) ==
    [ orden |-> respuesta = "data",
      excepcion |-> FALSE,
      bingx |-> IF respuesta = "data" THEN [bx EXCEPT !.sl = Append(@, stop_price)]
                ELSE bx ]

place_take_profit_order(bx, take_profit_price, respuesta) ==
    [ orden |-> respuesta = "data",
      excepcion |-> FALSE,
      bingx |-> IF respuesta = "data" THEN [bx EXCEPT !.tp = Append(@, take_profit_price)]
                ELSE bx ]

(* tickSize of the PRICE_FILTER of the symbol *)
TICK_SIZE == 10

(* side 'BUY' closes a SHORT, 'SELL' closes a LONG *)
validar_niveles_sl_tp(tipo_operacion, sl_price, tp_price, precio_actual) ==
    LET min_distance == TICK_SIZE * 10 IN
    IF precio_actual = 0 THEN <<sl_price, tp_price>>
    ELSE IF tipo_operacion = "SHORT"
    THEN << IF sl_price <= precio_actual + min_distance
            THEN (precio_actual * 1008) \div 1000 ELSE sl_price,
            IF tp_price >= precio_actual - min_distance
            THEN (precio_actual * 992) \div 1000 ELSE tp_price >>
    ELSE << IF sl_price >= precio_actual - min_distance
            THEN (precio_actual * 992) \div 1000 ELSE sl_price,
            IF tp_price <= precio_actual + min_distance
            THEN (precio_actual * 1008) \div 1000 ELSE tp_price >>

verificar_distancia_ordenes(tipo_operacion, precio_actual, sl_price, tp_price) ==
    LET min_price_distance == TICK_SIZE * 15 IN
    << IF Abs(precio_actual - sl_price) < min_price_distance
       THEN (IF tipo_operacion = "SHORT" THEN (precio_actual * 101) \div 100
             ELSE (precio_actual * 99) \div 100)
       ELSE sl_price,
       IF Abs(precio_actual - tp_price) < min_price_distance
       THEN (IF tipo_operacion = "SHORT" THEN (precio_actual * 99) \div 100
             ELSE (precio_actual * 101) \div 100)
       ELSE tp_price >>

MAX_RETRIES_CIERRE == 3

(* the except branch of the retry loop *)
RecalcularCierres(tipo_operacion, sl_ajustado, tp_ajustado) ==
    IF tipo_operacion = "LONG"
    THEN <<(sl_ajustado * 1005) \div 1000, (tp_ajustado * 995) \div 1000>>
    ELSE <<(sl_ajustado * 995) \div 1000, (tp_ajustado * 1005) \div 1000>>

(* for attempt in range(max_retries).  st = [bingx, sl_order, tp_order,    *)
(* sl_ajustado, tp_ajustado, pedidos]; respuestas[k] = the answers of the  *)
(* exchange to the stop-loss and the take-profit request of attempt k - 1. *)
RECURSIVE ColocarCierres(_, _, _, _)
ColocarCierres(st, tipo_operacion, respuestas, attempt) ==
    IF attempt >= MAX_RETRIES_CIERRE THEN st
    ELSE
    LET rs == respuestas[attempt + 1]
        r1 == IF ~st.sl_order
              THEN place_stop_loss_order(st.bingx, st.sl_ajustado, rs[1])
              ELSE [orden |-> TRUE, excepcion |-> FALSE, bingx |-> st.bingx]
        p1 == IF ~st.sl_order
              THEN Append(st.pedidos, Pedido("SL", st.sl_ajustado, attempt, rs[1]))
              ELSE st.pedidos
        r2 == IF r1.excepcion THEN [orden |-> st.tp_order, excepcion |-> FALSE, bingx |-> r1.bingx]
              ELSE IF ~st.tp_order
              THEN place_take_profit_order(r1.bingx, st.tp_ajustado, rs[2])
              ELSE [orden |-> TRUE, excepcion |-> FALSE, bingx |-> r1.bingx]
        p2 == IF ~r1.excepcion /\ ~st.tp_order
              THEN Append(p1, Pedido("TP", st.tp_ajustado, attempt, rs[2]))
              ELSE p1
        recalculados == RecalcularCierres(tipo_operacion, st.sl_ajustado, st.tp_ajustado)
        excepcion == r1.excepcion \/ r2.excepcion
        st2 == [ bingx |-> r2.bingx,
                 sl_order |-> r1.orden,
                 tp_order |-> r2.orden,
                 sl_ajustado |-> IF excepcion /\ attempt < MAX_RETRIES_CIERRE - 1
                                 THEN recalculados[1] ELSE st.sl_ajustado,
                 tp_ajustado |-> IF excepcion /\ attempt < MAX_RETRIES_CIERRE - 1
                                 THEN recalculados[2] ELSE st.tp_ajustado,
                 pedidos |-> p2 ]
    IN
    IF ~excepcion /\ st2.sl_order /\ st2.tp_order THEN st2
    ELSE ColocarCierres(st2, tipo_operacion, respuestas, attempt + 1)

(* ej: what the execution meets outside                                    *)
(*   falla         the step that fails before the position is open         *)
(*   precio_actual the price Binance gives at that moment                  *)
(*   respuestas    the answers to the protective orders, per attempt       *)
FallasEjecucion ==
    {"ninguna", "trader", "leverage", "margen", "cantidad", "precio", "orden", "excepcion"}

ejecutar_operacion_entrada_primero(bx, tipo_operacion, precio_entrada, sl, tp, ej) ==
    IF ej.falla # "ninguna"
    THEN [ok |-> FALSE, bingx |-> [bx EXCEPT !.posicion = ej.falla # "trader"],
          pedidos |-> <<>>]
    ELSE
    LET validados == validar_niveles_sl_tp(tipo_operacion, sl, tp, ej.precio_actual)
        ajustados == verificar_distancia_ordenes(tipo_operacion, ej.precio_actual,
                                                 validados[1], validados[2])
        fin == ColocarCierres([ bingx |-> [bx EXCEPT !.posicion = TRUE],
                                sl_order |-> FALSE,
                                tp_order |-> FALSE,
                                sl_ajustado |-> ajustados[1],
                                tp_ajustado |-> ajustados[2],
                                pedidos |-> <<>> ],
                              tipo_operacion, ej.respuestas, 0)
    IN [ok |-> TRUE, bingx |-> fin.bingx, pedidos |-> fin.pedidos]
ejecutar_operacion_binance(bx, tipo_operacion, precio_entrada, sl, tp, ej) ==
    IF ej.falla # "ninguna"
    THEN [ok |-> FALSE, bingx |-> bx, pedidos |-> <<>>]
    ELSE
    LET validados == validar_niveles_sl_tp(tipo_operacion, sl, tp, ej.precio_actual)
        ajustados == verificar_distancia_ordenes(tipo_operacion, ej.precio_actual,
                                                 validados[1], validados[2])
        fin == ColocarCierres([ bingx |-> [bx EXCEPT !.posicion = TRUE],
                                sl_order |-> FALSE,
                                tp_order |-> FALSE,
                                sl_ajustado |-> ajustados[1],
                                tp_ajustado |-> ajustados[2],
                                pedidos |-> <<>> ],
                              tipo_operacion, ej.respuestas, 0)
    IN [ok |-> TRUE, bingx |-> fin.bingx, pedidos |-> fin.pedidos]

(* verificar_ordenes_cierre_activas: (False, False) when the query fails *)
verificar_ordenes_cierre_activas(bx, consulta_ok) ==
    IF consulta_ok THEN <<bx.sl # <<>>, bx.tp # <<>> >> ELSE <<FALSE, FALSE>>

recolocar_solo_stop_loss(bx, sl_price, tp_price, mon) ==
    LET activas == verificar_ordenes_cierre_activas(bx, mon.consulta_ok)
        r1 == IF ~activas[1] THEN place_stop_loss_order(bx, sl_price, mon.sl)
              ELSE [orden |-> TRUE, excepcion |-> FALSE, bingx |-> bx]
        p1 == IF ~activas[1] THEN <<Pedido("SL", sl_price, 0, mon.sl)>> ELSE <<>>
    IN [ok |-> r1.orden, bingx |-> r1.bingx, pedidos |-> p1]

(* mon = [consulta_ok, sl, tp]: the answers to the query and to the two    *)
(* requests.  The take-profit is not tried when the stop-loss failed.      *)
recolocar_ordenes_cierre(bx, sl_price, tp_price, mon) ==
    LET activas == verificar_ordenes_cierre_activas(bx, mon.consulta_ok)
        r1 == IF ~activas[1] THEN place_stop_loss_order(bx, sl_price, mon.sl)
              ELSE [orden |-> TRUE, excepcion |-> FALSE, bingx |-> bx]
        p1 == IF ~activas[1] THEN <<Pedido("SL", sl_price, 0, mon.sl)>> ELSE <<>>
        r2 == IF ~activas[2] THEN place_take_profit_order(r1.bingx, tp_price, mon.tp)
              ELSE [orden |-> TRUE, excepcion |-> FALSE, bingx |-> r1.bingx]
        p2 == IF ~activas[2] THEN Append(p1, Pedido("TP", tp_price, 0, mon.tp)) ELSE p1
    IN
    IF ~r1.orden THEN [ok |-> FALSE, bingx |-> r1.bingx, pedidos |-> p1]
    ELSE [ok |-> r2.orden, bingx |-> r2.bingx, pedidos |-> p2]

(* one symbol is traded in these runs *)
monitorear_ordenes_activas(b, bx, simbolo, mon) ==
    IF simbolo \notin DOMAIN b.operaciones_activas
    THEN [ok |-> TRUE, bingx |-> bx, pedidos |-> <<>>]
    ELSE recolocar_ordenes_cierre(bx, b.operaciones_activas[simbolo].stop_loss,
                                  b.operaciones_activas[simbolo].take_profit, mon)

MercadosOrdenes ==
    { Lectura(Alcista, CanalAncho, "bajo", <<30, 30>>),
      Lectura(Bajista, CanalAncho, "sobre", <<70, 70>>),
      Lectura(Alcista, CanalAncho, "soporte", <<30, 30>>),
      Lectura(Bajista, CanalAncho, "resistencia", <<70, 70>>) }

(* the answers to the two requests of one attempt: both accepted, one of  *)
(* them refused, both lost                                                *)
RespuestasPorIntento ==
    { <<"data", "data">>, <<"data", "error">>, <<"error", "data">>,
      <<"excepcion", "excepcion">> }

(* every sequence of answers to the attempts, and the sequences that give *)
(* the same answer to every attempt                                       *)
SecuenciasRespuestas == [1..MAX_RETRIES_CIERRE -> RespuestasPorIntento]

SecuenciasConstantes ==
    { [i \in 1..MAX_RETRIES_CIERRE |-> r] : r \in RespuestasPorIntento }

EntradasEjecucion(niv, secuencias) ==
    { [falla |-> f, precio_actual |-> niv.precio_entrada, respuestas |-> <<>>] :
        f \in FallasEjecucion \ {"ninguna"} }
    \cup
    { [falla |-> "ninguna", precio_actual |-> p, respuestas |-> rs] :
        p \in {niv.precio_entrada, niv.stop_loss},
        rs \in secuencias }

EntradasMonitor ==
    { [consulta_ok |-> c, sl |-> rs[1], tp |-> rs[2]] :
        c \in BOOLEAN, rs \in RespuestasPorIntento }

(* every request of the monitor is accepted *)
MonitorAceptado == [consulta_ok |-> TRUE, sl |-> "data", tp |-> "data"]

SinEjecucion == [llamada |-> FALSE, ok |-> FALSE, falla |-> "ninguna", precio_actual |-> 0,
                 bingx_antes |-> BingxVacio, pedidos |-> <<>>]

MaxTimeOrdenes == 120
PasoOrdenes == 30

InitOrdenes ==
    /\ variant = "web"
    /\ now = 0
    /\ config = ConfigInicial
    /\ bot = TradingBotInit(NoFile, 0)
    /\ estado_file = NoFile
    /\ archivo_log = inicializar_log(NoLog).filas
    /\ log_file = [ existe |-> inicializar_log(NoLog).existe,
                    cabeceras |-> inicializar_log(NoLog).cabeceras,
                    previas |-> 0 ]
    /\ ult = [ fase |-> "inicio", bingx |-> BingxVacio, ejecucion |-> SinEjecucion,
               entorno |-> MonitorAceptado, monitor |-> <<>>, paso_prev |-> "inicio",
               sim |-> [s \in SymbolSet |-> UltInicial] ]

(* ejecutar_analisis of the engine at the level of the orders: the monitor *)
(* of the protective orders, the close check, the save and the scan.       *)
(* cerrada: the exchange has closed the position since the last cycle,     *)
(* which takes its protective orders with it; mon: the answers of the      *)
(* exchange to the monitor.  The clock stops at `tope`.                    *)
CicloConEntorno(cerrada, mon, secuencias, tope) ==
    LET simbolo == Symbols[1]
        t == IF now + PasoOrdenes <= tope THEN now + PasoOrdenes ELSE now
        bx0 == IF cerrada THEN BingxVacio ELSE ult.bingx
    IN
    \E m \in {monitorear_ordenes_activas(bot, bx0, simbolo, mon)} :
    \E cins \in { c \in EntradasCierreTodas(bot, variant, 1) :
                    /\ c[simbolo].escritura_ok
                    /\ simbolo \in DOMAIN bot.operaciones_activas
                         => c[simbolo].posicion_bingx = m.bingx.posicion } :
    \E st1 \in {verificar_cierre_operaciones(
                    [bot |-> bot, log |-> archivo_log, error |-> FALSE],
                    variant, t, cins, OrdenActivas(bot))} :
    \E ins \in { i \in EntradasScanTodas(st1.bot, variant, t, MercadosOrdenes, 1) :
                    /\ i[simbolo].ejecucion_ok
                    /\ simbolo \notin DOMAIN st1.bot.operaciones_activas
                         => i[simbolo].posicion_bingx = m.bingx.posicion } :
    \* the scan when the execution succeeds and when it fails
    \E scans \in {[ok \in BOOLEAN |->
                     escanear_mercado([bot |-> st1.bot, info |-> EmptyDict],
                                      variant, config, t,
                                      [ins EXCEPT ![simbolo].ejecucion_ok = ok], 1)]} :
    \E r0 \in {scans[TRUE].info[simbolo]} :
    \E ej \in (IF r0.paso = "senal" THEN EntradasEjecucion(r0.niveles, secuencias)
               ELSE {[falla |-> "ninguna", precio_actual |-> 0, respuestas |-> <<>>]}) :
    \E e \in {IF r0.paso = "senal"
              THEN ejecutar_operacion_binance(m.bingx, r0.reentry,
                       r0.niveles.precio_entrada, r0.niveles.stop_loss,
                       r0.niveles.take_profit, ej)
              ELSE [ok |-> FALSE, bingx |-> m.bingx, pedidos |-> <<>>]} :
    \E ejecutada \in {r0.paso # "senal" \/ e.ok} :
    \E sc \in {scans[ejecutada]} :
    /\ Len(st1.log) <= MaxLedger
    /\ now' = t
    /\ bot' = sc.bot
    /\ estado_file' = guardar_estado(st1.bot, t)
    /\ archivo_log' = st1.log
    /\ ult' = [ fase |-> "ciclo",
                bingx |-> e.bingx,
                ejecucion |-> IF r0.paso = "senal"
                              THEN [llamada |-> TRUE, ok |-> e.ok, falla |-> ej.falla,
                                    precio_actual |-> ej.precio_actual,
                                    bingx_antes |-> m.bingx, pedidos |-> e.pedidos]
                              ELSE SinEjecucion,
                entorno |-> mon,
                monitor |-> m.pedidos,
                paso_prev |-> ult.sim[simbolo].paso,
                sim |-> [s \in SymbolSet |->
                           UltCiclo(ult.sim[s], s, bot, st1.bot, t, cins[s],
                                    [ins EXCEPT ![simbolo].ejecucion_ok = ejecutada][s],
                                    sc.info[s], FALSE)] ]
    /\ UNCHANGED <<variant, config, log_file>>

CicloOrdenes(Monitores, secuencias, tope) ==
    \E cerrada \in (IF ult.bingx.posicion THEN BOOLEAN ELSE {FALSE}) :
    \E mon \in (IF Symbols[1] \in DOMAIN bot.operaciones_activas
                THEN Monitores ELSE {MonitorAceptado}) :
       CicloConEntorno(cerrada, mon, secuencias, tope)

EjecutarAnalisisOrdenes ==
    /\ now + PasoOrdenes <= MaxTimeOrdenes
    /\ CicloOrdenes(EntradasMonitor, SecuenciasRespuestas, MaxTimeOrdenes)

NextOrdenes == EjecutarAnalisisOrdenes

SpecOrdenes == InitOrdenes /\ [][NextOrdenes]_vars

----------------------------------------------------------------------------
(* The same engine running without end: the loop of the service calls      *)
(* ejecutar_analisis again after every pause.  In the pause the exchange   *)
(* decides how it answers the next monitor (BingxAcepta: the query is      *)
(* answered and the requests are accepted; BingxRechaza: any other answer) *)
(* and may close the position.  The clock stops at MaxTimeVivo and the     *)
(* cycles go on.  A monitor whose query fails sends its requests on top of *)
(* the orders already on the book; the book is kept to MaxLibro orders of  *)
(* a kind.  Strong fairness of BingxAcepta says that the exchange accepts  *)
(* orders again and again.                                                 *)

MaxLibro == 2
MaxTimeVivo == 60

Pausa(mon) ==
    /\ \E cerrada \in (IF ult.bingx.posicion THEN BOOLEAN ELSE {FALSE}) :
         ult' = [ult EXCEPT !.fase = "pausa",
                            !.entorno = mon,
                            !.bingx = IF cerrada THEN BingxVacio ELSE @]
    /\ UNCHANGED <<variant, now, config, bot, estado_file, archivo_log, log_file>>

BingxAcepta ==
    /\ ult.fase \in {"inicio", "ciclo"}
    /\ Pausa(MonitorAceptado)

BingxRechaza ==
    /\ ult.fase \in {"inicio", "ciclo"}
    /\ Symbols[1] \in DOMAIN bot.operaciones_activas
    /\ Len(ult.bingx.sl) < MaxLibro
    /\ Len(ult.bingx.tp) < MaxLibro
    /\ \E mon \in EntradasMonitor \ {MonitorAceptado} : Pausa(mon)

EjecutarAnalisisVivo ==
    /\ ult.fase = "pausa"
    /\ CicloConEntorno(FALSE, ult.entorno, SecuenciasConstantes, MaxTimeVivo)

NextOrdenesVivo == BingxAcepta \/ BingxRechaza \/ EjecutarAnalisisVivo

SpecOrdenesVivo ==
    InitOrdenes /\ [][NextOrdenesVivo]_vars /\ SF_vars(BingxAcepta)

----------------------------------------------------------------------------
(* BinanceClient._make_request (binanceBinance_client.py).  The session    *)
(* is mounted on an HTTPAdapter with Retry(total = MAX_RETRIES,            *)
(* status_forcelist = [429, 500, 502, 503, 504]) for GET and POST: the     *)
(* adapter sends the request again after an answer with one of these       *)
(* statuses, a time-out or a connection error, and raises when `total`     *)
(* is used up, so that session.get / session.post give _make_request       *)
(* either a response with another status or an exception.                  *)
(* Here bot is the client: pc ("libre", "sesion": inside session.get/post, *)
(* "fin"), its two counters, and for the call in progress the retries the  *)
(* adapter has left, the requests sent, the depth of the recursion of      *)
(* _make_request and the value returned.                                   *)

MAX_RETRIES == 3
RETRY_DELAY == 1

STATUS_FORCELIST_SIN_429 == {500, 502, 503, 504}
STATUS_FORCELIST == {429, 500, 502, 503, 504}

(* what the server does with one request: a status, with a body that is   *)
(* JSON or not, or no answer                                              *)
RespuestasServidor ==
    { [status |-> 200, json |-> TRUE], [status |-> 200, json |-> FALSE],
      [status |-> 429, json |-> TRUE], [status |-> 503, json |-> TRUE],
      [status |-> 404, json |-> TRUE], [status |-> 501, json |-> TRUE],
      [status |-> 0, json |-> FALSE] }

MetodosPeticion == {"GET", "POST", "DELETE"}

ClienteInicial ==
    [ pc |-> "libre", request_count |-> 0, error_count |-> 0, method |-> "GET",
      retries |-> 0, enviadas |-> 0, profundidad |-> 0, esperas |-> 0,
      resultado |-> "None", exitosa |-> FALSE ]

(* the adapter: "reintentar", or what session.get / session.post gives    *)
SesionResponde(c, respuesta) ==
    IF respuesta.status = 0 \/ respuesta.status \in STATUS_FORCELIST
    THEN (IF c.retries > 0 THEN "reintentar" ELSE "excepcion")
    ELSE "respuesta"

(* _make_request from the answer of the session on *)
TrasRespuesta(c, respuesta) ==
    IF respuesta.status = 200
    THEN (IF respuesta.json
          THEN [c EXCEPT !.pc = "fin", !.resultado = "json", !.exitosa = TRUE]
          ELSE [c EXCEPT !.pc = "fin", !.resultado = "None", !.error_count = @ + 1])
    ELSE IF respuesta.status = 429
    THEN \* time.sleep(self.retry_delay); return self._make_request(...)
         [c EXCEPT !.pc = "sesion", !.esperas = @ + RETRY_DELAY,
                   !.profundidad = @ + 1, !.request_count = @ + 1,
                   !.retries = MAX_RETRIES]
    ELSE [c EXCEPT !.pc = "fin", !.resultado = "None", !.error_count = @ + 1]

MaxLlamadas == 3
MaxProfundidad == 2

InitPeticion ==
    /\ variant = "cliente"
    /\ now = 0
    /\ config = [max_retries |-> MAX_RETRIES, retry_delay |-> RETRY_DELAY]
    /\ bot = ClienteInicial
    /\ estado_file = NoFile
    /\ archivo_log = <<>>
    /\ log_file = [existe |-> FALSE, cabeceras |-> 0, previas |-> 0]
    /\ ult = [fase |-> "inicio", llamadas |-> 0, respuesta |-> [status |-> 0, json |-> FALSE]]

(* _make_request is called: the counters, then session.get / session.post. *)
(* Another method raises ValueError, which the function catches.           *)
LlamarMakeRequest ==
    /\ bot.pc \in {"libre", "fin"}
    /\ ult.llamadas < MaxLlamadas
    /\ \E method \in MetodosPeticion :
         bot' = IF method \in {"GET", "POST"}
                THEN [bot EXCEPT !.pc = "sesion", !.method = method,
                                 !.request_count = @ + 1,
                                 !.retries = MAX_RETRIES, !.enviadas = 0,
                                 !.profundidad = 0, !.esperas = 0,
                                 !.resultado = "None", !.exitosa = FALSE]
                ELSE [bot EXCEPT !.pc = "fin", !.method = method,
                                 !.request_count = @ + 1,
                                 !.retries = 0, !.enviadas = 0,
                                 !.profundidad = 0, !.esperas = 0,
                                 !.resultado = "None", !.exitosa = FALSE,
                                 !.error_count = @ + 1]
    /\ ult' = [ult EXCEPT !.fase = "llamada", !.llamadas = @ + 1]
    /\ UNCHANGED <<variant, now, config, estado_file, archivo_log, log_file>>

(* one request is sent and the server answers it (or does not) *)
ResponderServidor ==
    /\ bot.pc = "sesion"
    /\ bot.profundidad <= MaxProfundidad
    /\ \E respuesta \in RespuestasServidor :
         LET c == [bot EXCEPT !.enviadas = @ + 1]
             s == SesionResponde(c, respuesta)
         IN
         /\ bot' = IF s = "reintentar" THEN [c EXCEPT !.retries = @ - 1]
                   ELSE IF s = "excepcion"
                   THEN [c EXCEPT !.pc = "fin", !.resultado = "None",
                                  !.error_count = @ + 1]
                   ELSE TrasRespuesta(c, respuesta)
         /\ ult' = [ult EXCEPT !.fase = "respuesta", !.respuesta = respuesta]
    /\ UNCHANGED <<variant, now, config, estado_file, archivo_log, log_file>>

NextPeticion ==
    \/ LlamarMakeRequest
    \/ ResponderServidor

(* a request that was sent is answered or times out (API_TIMEOUT) *)
SpecPeticion == InitPeticion /\ [][NextPeticion]_vars /\ WF_vars(ResponderServidor)

----------------------------------------------------------------------------
(* The strength classifier alone: Init draws two angles in whole degrees,  *)
(* the one action classifies both.                                         *)

MaxAngulo == 50

InitFuerza ==
    /\ variant = "fuerza"
    /\ now = 0
    /\ config = ConfigInicial
    /\ bot = BotNuevo
    /\ estado_file = NoFile
    /\ archivo_log = <<>>
    /\ log_file = [existe |-> FALSE, cabeceras |-> 0, previas |-> 0]
    /\ \E a \in -MaxAngulo..MaxAngulo, b \in -MaxAngulo..MaxAngulo :
         ult = [fase |-> "inicio", angulos |-> <<a, b>>, niveles |-> <<0, 0>>]

ClasificarFuerza ==
    /\ ult.fase = "inicio"
    /\ ult' = [ult EXCEPT !.fase = "clasificado",
                          !.niveles = << clasificar_fuerza_tendencia(ult.angulos[1]),
                                         clasificar_fuerza_tendencia(ult.angulos[2]) >>]
    /\ UNCHANGED <<variant, now, config, bot, estado_file, archivo_log, log_file>>

NextFuerza == ClasificarFuerza

SpecFuerza == InitFuerza /\ [][NextFuerza]_vars

----------------------------------------------------------------------------
(* Properties.  Those that speak of a cycle are stated of the state after  *)
(* the cycle (ult.fase = "ciclo"), with the history of that cycle in ult.  *)

(* C1: a position is created in a scan only if a pending breakout of the   *)
(* symbol existed when the cycle of that scan began, and a scan that       *)
(* registers a breakout for a symbol does not open a position for it.      *)
C1_SinSaltoAPosicion ==
    ult.fase = "ciclo" =>
      \A s \in SymbolSet :
        /\ (/\ s \in DOMAIN bot.operaciones_activas
            /\ bot.operaciones_activas[s].timestamp_entrada = now)
              => ult.sim[s].pend_antes.tipo # "NONE"
        /\ (/\ s \in DOMAIN bot.esperando_reentry
            /\ bot.esperando_reentry[s].timestamp = now)
              => s \notin DOMAIN bot.operaciones_activas
        /\ ult.sim[s].paso = "breakout" => s \notin DOMAIN bot.operaciones_activas

(* a scan has just turned a pending breakout into a position *)
C1_Witness ==
    /\ ult.fase = "ciclo"
    /\ \E s \in SymbolSet :
         /\ s \in DOMAIN bot.operaciones_activas
         /\ bot.operaciones_activas[s].timestamp_entrada = now
         /\ ult.sim[s].pend_antes.tipo # "NONE"
         /\ ult.sim[s].pend_antes.timestamp < now

(* C2: in the bot after every cycle and every start, and in every state    *)
(* file written, no symbol is both in esperando_reentry and in             *)
(* operaciones_activas (each dict holds at most one entry per symbol by    *)
(* construction).                                                          *)
C2_Excluyentes ==
    /\ \A s \in SymbolSet :
         ~(s \in DOMAIN bot.esperando_reentry /\ s \in DOMAIN bot.operaciones_activas)
    /\ estado_file.existe =>
         \A s \in SymbolSet :
           ~(/\ s \in DOMAIN estado_file.esperando_reentry
             /\ s \in DOMAIN estado_file.operaciones_activas)

(* the file written before the scan holds the pending breakout that the    *)
(* scan turned into a position                                             *)
C2_Witness ==
    /\ estado_file.existe
    /\ \E s \in SymbolSet :
         /\ s \in DOMAIN estado_file.esperando_reentry
         /\ s \in DOMAIN bot.operaciones_activas
         /\ s \notin DOMAIN bot.esperando_reentry

C4_ReentryAbrePosicion ==
    ult.fase = "ciclo" =>
      \A s \in SymbolSet :
        (ult.sim[s].reentry \in {"LONG", "SHORT"} /\ ult.sim[s].paso # "cooldown")
        => /\ s \in DOMAIN bot.operaciones_activas
           /\ bot.operaciones_activas[s].tipo = ult.sim[s].reentry
           /\ bot.operaciones_activas[s].precio_entrada = ult.sim[s].niveles.precio_entrada
           /\ bot.operaciones_activas[s].take_profit = ult.sim[s].niveles.take_profit
           /\ bot.operaciones_activas[s].stop_loss = ult.sim[s].niveles.stop_loss
           /\ s \notin DOMAIN bot.esperando_reentry
           /\ ult.sim[s].t_senal = now

(* C4 amended: the same when, in the engine that places orders, the order  *)
(* is placed; when the order fails the pending breakout is removed and     *)
(* there is neither a position nor a signal.                               *)
C4_ReentryEjecutadaAbrePosicion ==
    ult.fase = "ciclo" =>
      \A s \in SymbolSet :
        (ult.sim[s].reentry \in {"LONG", "SHORT"} /\ ult.sim[s].paso # "cooldown")
        => IF variant = "web" /\ ~ult.sim[s].lectura.ejecucion_ok
           THEN /\ s \notin DOMAIN bot.operaciones_activas
                /\ s \notin DOMAIN bot.esperando_reentry
                /\ ult.sim[s].t_senal # now
           ELSE /\ s \in DOMAIN bot.operaciones_activas
                /\ bot.operaciones_activas[s].tipo = ult.sim[s].reentry
                /\ bot.operaciones_activas[s].timestamp_entrada = now
                /\ bot.operaciones_activas[s].precio_entrada
                     = ult.sim[s].niveles.precio_entrada
                /\ bot.operaciones_activas[s].take_profit = ult.sim[s].niveles.take_profit
                /\ bot.operaciones_activas[s].stop_loss = ult.sim[s].niveles.stop_loss
                /\ ult.sim[s].niveles.precio_entrada > 0
                /\ s \notin DOMAIN bot.esperando_reentry
                /\ s \in bot.senales_enviadas
                /\ ult.sim[s].t_senal = now

(* a confirmed reentry whose order was placed by the live engine *)
C4_Witness ==
    /\ ult.fase = "ciclo"
    /\ variant = "web"
    /\ \E s \in SymbolSet :
         /\ ult.sim[s].reentry \in {"LONG", "SHORT"}
         /\ ult.sim[s].paso # "cooldown"
         /\ ult.sim[s].lectura.ejecucion_ok
         /\ s \in DOMAIN bot.operaciones_activas

C6_BreakoutsEspaciados ==
    \A s \in SymbolSet :
      ult.sim[s].t_breakout_prev >= 0
      => ult.sim[s].t_breakout - ult.sim[s].t_breakout_prev
           >= (IF variant = "estrategia" THEN BREAKOUT_COOLDOWN_ESTRATEGIA
               ELSE BREAKOUT_COOLDOWN_WEB)

(* C7: a scan that reads a channel with strength level < 2, |Pearson| <    *)
(* 0.4, r2 < 0.4 or a width below min_channel_width_percent registers no   *)
(* breakout and confirms no reentry for the symbol.                        *)
C7_CanalRechazado ==
    ult.fase = "ciclo" =>
      \A s \in SymbolSet :
        LET m == ult.sim[s].lectura.mercado IN
        (/\ m.disponible
         /\ \/ clasificar_fuerza_tendencia(m.angulo) < 2
            \/ Abs(m.pearson) < 40
            \/ m.pearson * m.pearson < 4000
            \/ ((m.resistencia - m.soporte) * 20000) \div (m.resistencia + m.soporte)
                 < config.min_channel_width_percent)
        => /\ ult.sim[s].breakout = "NONE"
           /\ ult.sim[s].reentry = "NONE"
           /\ s \in DOMAIN bot.esperando_reentry
                => bot.esperando_reentry[s].timestamp # now
           /\ s \in DOMAIN bot.operaciones_activas
                => bot.operaciones_activas[s].timestamp_entrada # now

(* C8: for an idle symbol whose channel passes the quality gate,           *)
(* detectar_breakout returns BREAKOUT_LONG exactly when |angle| >= the     *)
(* minimum, the direction is up and the close is below the support,        *)
(* BREAKOUT_SHORT exactly when |angle| >= the minimum, the direction is    *)
(* down and the close is above the resistance, nothing otherwise; on a     *)
(* result the scan records the pending breakout with that kind, the        *)
(* current time and the current price.                                     *)
C8_DetectarBreakout ==
    ult.fase = "ciclo" =>
      \A s \in SymbolSet :
        LET u == ult.sim[s]
            m == u.lectura.mercado
            fuerte == Abs(m.angulo) >= config.min_trend_strength_degrees
            esperado ==
                IF fuerte /\ determinar_direccion_tendencia(m.angulo) = "ALCISTA"
                          /\ m.precio < m.soporte
                THEN "BREAKOUT_LONG"
                ELSE IF fuerte /\ determinar_direccion_tendencia(m.angulo) = "BAJISTA"
                               /\ m.precio > m.resistencia
                THEN "BREAKOUT_SHORT"
                ELSE "NONE"
        IN
        (/\ u.pend_antes.tipo = "NONE"
         /\ ~u.activa_scan
         /\ ~(variant = "web" /\ u.lectura.posicion_bingx)
         /\ u.paso # "sin_config"
         /\ m.disponible
         /\ m.velas >= 100
         /\ clasificar_fuerza_tendencia(m.angulo) >= 2
         /\ Abs(m.pearson) >= 40
         /\ m.pearson * m.pearson >= 4000
         /\ ((m.resistencia - m.soporte) * 20000) \div (m.resistencia + m.soporte)
              >= config.min_channel_width_percent)
        => /\ u.breakout = esperado
           /\ IF esperado = "NONE"
              THEN s \notin DOMAIN bot.esperando_reentry
              ELSE /\ s \in DOMAIN bot.esperando_reentry
                   /\ bot.esperando_reentry[s].tipo = esperado
                   /\ bot.esperando_reentry[s].timestamp = now
                   /\ bot.esperando_reentry[s].precio_breakout = m.precio

(* an idle symbol closed below the support of a rising channel that passes *)
(* the gate, and its breakout was recorded                                 *)
C8_Witness ==
    /\ ult.fase = "ciclo"
    /\ ult.ciclos = 2
    /\ \E s \in SymbolSet :
         /\ ult.sim[s].pend_antes.tipo = "NONE"
         /\ ult.sim[s].lectura.mercado.disponible
         /\ ult.sim[s].lectura.mercado.precio < ult.sim[s].lectura.mercado.soporte
         /\ ult.sim[s].breakout = "BREAKOUT_LONG"
         /\ s \in DOMAIN bot.esperando_reentry

(* C9: for a pending breakout that has not timed out, detectar_reentry     *)
(* returns LONG iff the kind is BREAKOUT_LONG, support <= price <=         *)
(* resistance, |price - support| <= 0.001 * price, %K <= 30 and %D <= 30,  *)
(* and SHORT iff the kind is BREAKOUT_SHORT, the price is in the band,     *)
(* |price - resistance| <= 0.001 * price, %K >= 70 and %D >= 70; never the *)
(* opposite side; nothing without a pending breakout.                      *)
C9_DetectarReentry ==
    ult.fase = "ciclo" =>
      \A s \in SymbolSet :
        LET u == ult.sim[s]
            m == u.lectura.mercado
            dentro == m.soporte <= m.precio /\ m.precio <= m.resistencia
            largo == /\ dentro
                     /\ Abs(m.precio - m.soporte) * 1000 <= m.precio
                     /\ m.stoch_k <= 30
                     /\ m.stoch_d <= 30
            corto == /\ dentro
                     /\ Abs(m.precio - m.resistencia) * 1000 <= m.precio
                     /\ m.stoch_k >= 70
                     /\ m.stoch_d >= 70
            vigente == now - u.pend_antes.timestamp
                         <= (IF variant = "estrategia" THEN REENTRY_TIMEOUT_ESTRATEGIA
                             ELSE REENTRY_TIMEOUT_WEB)
        IN
        (/\ ~u.activa_scan
         /\ ~(variant = "web" /\ u.lectura.posicion_bingx)
         /\ u.paso # "sin_config"
         /\ m.disponible
         /\ m.velas >= 100
         /\ clasificar_fuerza_tendencia(m.angulo) >= 2
         /\ Abs(m.pearson) >= 40
         /\ m.pearson * m.pearson >= 4000)
        => /\ u.pend_antes.tipo = "NONE" => u.reentry = "NONE"
           /\ (u.pend_antes.tipo = "BREAKOUT_LONG" /\ vigente)
                => (u.reentry = "LONG" <=> largo) /\ u.reentry # "SHORT"
           /\ (u.pend_antes.tipo = "BREAKOUT_SHORT" /\ vigente)
                => (u.reentry = "SHORT" <=> corto) /\ u.reentry # "LONG"

(* the price came back to within the tolerance above the support and the   *)
(* reentry of a BREAKOUT_LONG was confirmed                                *)
C9_Witness ==
    /\ ult.fase = "ciclo"
    /\ \E s \in SymbolSet :
         /\ ult.sim[s].pend_antes.tipo = "BREAKOUT_LONG"
         /\ ult.sim[s].lectura.mercado.disponible
         /\ ult.sim[s].lectura.mercado.precio > ult.sim[s].lectura.mercado.soporte
         /\ ult.sim[s].reentry = "LONG"

(* C10: a position is removed only in a cycle whose observed price reached *)
(* its take profit or stop loss, with the result named after the level     *)
(* reached; in every other cycle it is left as it was.                     *)
C10_CierreSoloPorPrecio ==
    ult.fase = "ciclo" =>
      \A s \in SymbolSet :
        LET u == ult.sim[s]
            op == u.op_antes
            p == u.cin.precio
            esperado ==
                IF p = 0 THEN "NONE"
                ELSE IF op.tipo = "LONG"
                THEN (IF p >= op.take_profit THEN "TP"
                      ELSE IF p <= op.stop_loss THEN "SL" ELSE "NONE")
                ELSE (IF p <= op.take_profit THEN "TP"
                      ELSE IF p >= op.stop_loss THEN "SL" ELSE "NONE")
        IN
        op.tipo # "NONE"
        => IF s \in DOMAIN bot.operaciones_activas
           THEN bot.operaciones_activas[s] = op
           ELSE /\ esperado # "NONE"
                /\ Len(archivo_log) > 0
                /\ archivo_log[Len(archivo_log)].symbol = s
                /\ archivo_log[Len(archivo_log)].timestamp = now
                /\ archivo_log[Len(archivo_log)].resultado = esperado

(* C11: every removal of a position by a close check has appended one row  *)
(* to the ledger: the ledger has as many rows as positions were closed,    *)
(* also when a write to the ledger fails.                                  *)
C11_UnaFilaPorCierre ==
    Len(archivo_log) = ult.cerradas

(* C12: the close of a position starts the cooldown of its symbol: no      *)
(* signal for the symbol within 2 hours after a close recorded in the      *)
(* ledger.                                                                 *)
C12_SinSenalTrasCierre ==
    \A s \in SymbolSet :
      \A i \in 1..Len(archivo_log) :
        (/\ archivo_log[i].symbol = s
         /\ archivo_log[i].timestamp <= ult.sim[s].t_senal)
        => ult.sim[s].t_senal - archivo_log[i].timestamp >= SIGNAL_COOLDOWN_HOURS * 60

(* C13: the ledger is append-only.  In every step, a start of the bot     *)
(* included, the rows written before are still there, unchanged and in     *)
(* the same order, and a ledger file that exists keeps its single header.  *)
C13_LedgerSoloCrece ==
    [][ /\ Len(archivo_log') >= Len(archivo_log)
        /\ SubSeq(archivo_log', 1, Len(archivo_log)) = archivo_log
        /\ log_file.existe => log_file' = log_file
        /\ log_file'.cabeceras = 1 ]_vars

(* the bot was started again on a ledger that holds a row *)
C13_Witness ==
    /\ ult.fase = "reinicio"
    /\ Len(archivo_log) > 0
    /\ log_file.existe
    /\ log_file.cabeceras = 1

C15_NivelesIniciales ==
    ult.fase = "niveles" =>
      \A s \in SymbolSet :
        LET n == ult.sim[s].niveles
            m == ult.sim[s].lectura.mercado
            largo == ult.sim[s].reentry = "LONG"
            sl == IF largo THEN (m.precio * 98) \div 100
                  ELSE (m.resistencia * 102) \div 100
            ancho == m.resistencia - m.soporte
        IN
        (/\ m.precio # sl
         /\ ancho * 10 >= Get(config, "min_rr_ratio", 12) * Abs(m.precio - sl))
        => /\ ~n.error
           /\ n.precio_entrada = m.precio
           /\ n.stop_loss = sl
           /\ n.take_profit = IF largo THEN m.precio + ancho ELSE m.precio - ancho

(* a SHORT in a wide channel whose first levels were returned as they were *)
C15_Witness ==
    /\ ult.fase = "niveles"
    /\ \E s \in SymbolSet :
         LET n == ult.sim[s].niveles
             m == ult.sim[s].lectura.mercado
         IN /\ ult.sim[s].reentry = "SHORT"
            /\ ~n.error
            /\ m.precio < n.stop_loss
            /\ n.take_profit = m.precio - (m.resistencia - m.soporte)
            /\ (m.resistencia - m.soporte) * 10
                 >= Get(config, "min_rr_ratio", 12) * (n.stop_loss - m.precio)

(* C16: without min_rr_ratio in the configuration the default 1.2 is used: *)
(* levels whose first ratio is below 1.2 get take profit = entry + risk *  *)
(* 1.2 (LONG) or entry - risk * 1.2 (SHORT); the computation does not fail.*)
C16_RatioPorDefecto ==
    ult.fase = "niveles" =>
      \A s \in SymbolSet :
        LET n == ult.sim[s].niveles
            m == ult.sim[s].lectura.mercado
            largo == ult.sim[s].reentry = "LONG"
            sl == IF largo THEN (m.precio * 98) \div 100
                  ELSE (m.resistencia * 102) \div 100
            riesgo == Abs(m.precio - sl)
            ancho == m.resistencia - m.soporte
        IN
        (/\ "min_rr_ratio" \notin DOMAIN config
         /\ ancho * 10 < 12 * riesgo)
        => /\ ~n.error
           /\ n.take_profit = IF largo THEN m.precio + (riesgo * 12) \div 10
                               ELSE m.precio - (riesgo * 12) \div 10

(* C17: a restart from the file that guardar_estado writes of the current  *)
(* state leaves the bot with the same active positions, pending breakouts, *)
(* scan configurations with their search times, cooldown times and the two *)
(* counters as before the save.                                            *)
C17_IdaYVuelta ==
    [][ ( /\ ult.fase = "ciclo"
          /\ ult'.fase = "reinicio"
          /\ estado_file' = guardar_estado(bot, now) )
        => /\ bot'.operaciones_activas = bot.operaciones_activas
           /\ bot'.esperando_reentry = bot.esperando_reentry
           /\ bot'.breakouts_detectados = bot.breakouts_detectados
           /\ bot'.config_optima_por_simbolo = bot.config_optima_por_simbolo
           /\ bot'.ultima_busqueda_config = bot.ultima_busqueda_config
           /\ bot'.breakout_history = bot.breakout_history
           /\ bot'.operaciones_desde_optimizacion = bot.operaciones_desde_optimizacion
           /\ bot'.total_operaciones = bot.total_operaciones ]_vars

(* C18: the parameter set is part of the saved state: after a save and a   *)
(* restart from the saved file, the trend threshold, the minimum trend     *)
(* strength and the entry margin in effect are those in effect before.     *)
C18_ParametrosRestaurados ==
    [][ ( /\ ult.fase = "ciclo"
          /\ ult'.fase = "reinicio"
          /\ estado_file' = guardar_estado(bot, now) )
        => /\ config'.trend_threshold_degrees = config.trend_threshold_degrees
           /\ config'.min_trend_strength_degrees = config.min_trend_strength_degrees
           /\ config'.entry_margin = config.entry_margin ]_vars

(* C19: after a start from a state file that is missing, is not parsable   *)
(* or holds an invalid timestamp in one of its fields, the bot is in the   *)
(* complete empty initial state: all maps empty, both counters zero.       *)
C19_CargaFallidaVacia ==
    ( /\ ult.fase = "reinicio"
      /\ \/ ~estado_file.existe
         \/ ~estado_file.legible
         \/ estado_file.ultima_optimizacion = FechaMalformada
         \/ \E k \in DOMAIN estado_file.ultima_busqueda_config :
               estado_file.ultima_busqueda_config[k] = FechaMalformada
         \/ \E k \in DOMAIN estado_file.breakout_history :
               estado_file.breakout_history[k] = FechaMalformada
         \/ \E k \in DOMAIN estado_file.esperando_reentry :
               estado_file.esperando_reentry[k].timestamp = FechaMalformada
         \/ \E k \in DOMAIN estado_file.breakouts_detectados :
               estado_file.breakouts_detectados[k].timestamp = FechaMalformada )
    => /\ bot.operaciones_activas = EmptyDict
       /\ bot.esperando_reentry = EmptyDict
       /\ bot.breakouts_detectados = EmptyDict
       /\ bot.config_optima_por_simbolo = EmptyDict
       /\ bot.ultima_busqueda_config = EmptyDict
       /\ bot.breakout_history = EmptyDict
       /\ bot.senales_enviadas = {}
       /\ bot.operaciones_desde_optimizacion = 0
       /\ bot.total_operaciones = 0

(* C20: what a reader of the state file gets, at any moment relative to    *)
(* guardar_estado, is a complete document (the one before the save or the  *)
(* new one), or no file when none was ever written; never an empty or a    *)
(* partly written file.                                                    *)
C20_LecturaCompleta ==
    ult.leido.existe => ult.leido.legible

(* C21: when a cycle has ended, the state file holds the state the cycle   *)
(* left: the positions it closed, the breakouts it registered and the      *)
(* positions it opened are all in the file.                                *)
C21_ArchivoTrasCiclo ==
    ult.fase = "ciclo" =>
        /\ estado_file.existe
        /\ estado_file.operaciones_activas = bot.operaciones_activas
        /\ DOMAIN estado_file.esperando_reentry = DOMAIN bot.esperando_reentry
        /\ \A s \in DOMAIN bot.esperando_reentry :
              /\ estado_file.esperando_reentry[s].tipo = bot.esperando_reentry[s].tipo
              /\ estado_file.esperando_reentry[s].timestamp
                     = isoformat(bot.esperando_reentry[s].timestamp)
        /\ DOMAIN estado_file.breakouts_detectados = DOMAIN bot.breakouts_detectados
        /\ \A s \in DOMAIN bot.breakouts_detectados :
              estado_file.breakouts_detectados[s].timestamp
                  = isoformat(bot.breakouts_detectados[s].timestamp)

(* C22: in every cycle, each symbol whose own processing did not fail is   *)
(* processed whatever happened to the others: its position is closed when  *)
(* the close check's reading closes it, and the scan reaches it.           *)
C22_FallosAislados ==
    ult.fase \in {"ciclo", "abortado"} =>
      \A s \in SymbolSet :
        LET u == ult.sim[s]
            debeCerrar ==
                /\ u.op_antes # NoOp
                /\ u.cin.precio # 0
                /\ IF variant = "estrategia"
                   THEN ResultadoPorPrecio(u.op_antes, u.cin.precio) # "NONE"
                   ELSE ~u.cin.posicion_bingx
        IN
        ~(debeCerrar /\ ~u.cin.escritura_ok)
          => /\ debeCerrar => u.cierre = "CERRADA"
             /\ u.paso # "abortado"

(* C23: a scan that gets no market data for a symbol, or fewer candles    *)
(* than the configuration asks for, skips the symbol: its pending         *)
(* breakout, its position (as the close check of the cycle left it) and   *)
(* its cooldown entries after the scan are those before it, and neither a *)
(* breakout nor a signal is reported.                                     *)
C23_SimboloOmitido ==
    [][ (/\ now' > now
         /\ ult'.fase = "ciclo")
        => \A s \in SymbolSet :
             LET u == ult'.sim[s]
                 m == u.lectura.mercado
             IN
             (~m.disponible \/ m.velas < 100)
             => /\ Get(bot'.esperando_reentry, s, NoPend)
                     = Get(bot.esperando_reentry, s, NoPend)
                /\ Get(bot'.operaciones_activas, s, NoOp)
                     = (IF u.activa_scan THEN Get(bot.operaciones_activas, s, NoOp)
                        ELSE NoOp)
                /\ Get(bot'.breakout_history, s, 0) = Get(bot.breakout_history, s, 0)
                /\ Get(bot'.breakouts_detectados, s, NoPend)
                     = Get(bot.breakouts_detectados, s, NoPend)
                /\ u.breakout = "NONE"
                /\ u.reentry = "NONE"
                /\ u.niveles = NoNiveles
      ]_vars

(* a symbol waiting for its reentry was scanned with a reading at the     *)
(* support of a rising channel that had one candle too few, and was       *)
(* skipped                                                                *)
C23_Witness ==
    /\ ult.fase = "ciclo"
    /\ \E s \in SymbolSet :
         /\ ult.sim[s].pend_antes.tipo = "BREAKOUT_LONG"
         /\ ult.sim[s].lectura.mercado.disponible
         /\ ult.sim[s].lectura.mercado.velas = 99
         /\ ult.sim[s].lectura.mercado.precio = ult.sim[s].lectura.mercado.soporte
         /\ ult.sim[s].paso = "sin_datos"
         /\ s \in DOMAIN bot.esperando_reentry

(* C24: no two executions of ejecutar_analisis overlap in one process.    *)
(* Stated of the service of app.py: at most one thread is inside          *)
(* ejecutar_analisis at any time.                                         *)
C24_UnSoloAnalisis ==
    variant = "app" =>
      Cardinality({h \in Hilos : bot.hilos[h].pc = "analizando"}) <= 1

(* C25: the combination the optimizer returns keeps at least max(8, 15 %  *)
(* of the rows) of the ledger, whatever ledger of at least min_samples    *)
(* rows it reads.                                                         *)
C25_MinimoDeMuestras ==
    (ult.fase = "reoptimizado" /\ ult.resultado # NoParametros) =>
      Filtradas(ult.datos, ult.resultado.trend_threshold_degrees,
                ult.resultado.min_trend_strength_degrees)
        >= MinimoMuestras(ult.datos)

(* C26: run on a ledger of at least min_samples rows, the optimizer       *)
(* returns a combination of the grid whose score no other combination of  *)
(* the grid exceeds, and one that meets the sample floor whenever some    *)
(* combination meets it.                                                  *)
C26_MejorPuntaje ==
    (/\ ult.fase = "reoptimizado"
     /\ ult.debia
     /\ TotalDatos(ult.datos)
          >= Get(config, "min_samples_optimizacion", MIN_SAMPLES_REOPT))
    => /\ ult.resultado # NoParametros
       /\ \A h \in 1..Len(TREND_VALUES), i \in 1..Len(STRENGTH_VALUES) :
            /\ evaluar_configuracion(ult.datos, ult.resultado.trend_threshold_degrees,
                                     ult.resultado.min_trend_strength_degrees,
                                     ult.resultado.entry_margin)
                 >= evaluar_configuracion(ult.datos, TREND_VALUES[h],
                                          STRENGTH_VALUES[i], MARGIN_VALUES[1])
            /\ Filtradas(ult.datos, TREND_VALUES[h], STRENGTH_VALUES[i])
                   >= MinimoMuestras(ult.datos)
                 => Filtradas(ult.datos, ult.resultado.trend_threshold_degrees,
                              ult.resultado.min_trend_strength_degrees)
                      >= MinimoMuestras(ult.datos)

(* C27: on a ledger of fewer than min_samples rows the optimizer returns  *)
(* nothing and writes no mejores_parametros.json, and the re-optimization *)
(* leaves the thresholds, the time of the last optimization and the       *)
(* counter of closed trades as they were.                                 *)
C27_SinMuestrasSinCambio ==
    [][ (/\ ult'.fase = "reoptimizado"
         /\ TotalDatos(ult.datos)
              < Get(config, "min_samples_optimizacion", MIN_SAMPLES_REOPT))
        => /\ ult'.resultado = NoParametros
           /\ ult'.mejores_parametros_json = ult.mejores_parametros_json
           /\ config' = config
           /\ bot'.ultima_optimizacion = bot.ultima_optimizacion
           /\ bot'.operaciones_desde_optimizacion = bot.operaciones_desde_optimizacion
      ]_vars

(* the optimizer was run, eight trades after the last optimization, on a  *)
(* ledger of 29 rows, one less than min_samples                           *)
C27_Witness ==
    /\ ult.fase = "reoptimizado"
    /\ ult.llamado
    /\ TotalDatos(ult.datos) = 29
    /\ bot.operaciones_desde_optimizacion = REOPT_OPERACIONES
    /\ ult.resultado = NoParametros

(* C28: reoptimizar_periodicamente runs the optimizer exactly when 8      *)
(* trades or more have closed since the last successful optimization or   *)
(* reevaluacion_horas (24) hours or more have passed since it.            *)
C28_CuandoReoptimiza ==
    [][ ult'.fase = "reoptimizado"
        => (ult'.llamado
            <=> \/ bot.operaciones_desde_optimizacion >= REOPT_OPERACIONES
                \/ now' - bot.ultima_optimizacion
                     >= 60 * Get(config, "reevaluacion_horas", 24))
      ]_vars

(* C29: a step in which the optimizer returned a combination leaves the   *)
(* three thresholds of the configuration equal to that combination, the   *)
(* counter of closed trades at zero (plus the trades closed later in the  *)
(* same cycle) and the time of the last optimization at the time of the   *)
(* step.                                                                  *)
C29_ReemplazoConjunto ==
    [][ (ult'.opt # ult.opt /\ ult'.opt.parametros # NoParametros)
        => /\ config'.trend_threshold_degrees
                = ult'.opt.parametros.trend_threshold_degrees
           /\ config'.min_trend_strength_degrees
                = ult'.opt.parametros.min_trend_strength_degrees
           /\ config'.entry_margin = ult'.opt.parametros.entry_margin
           /\ bot'.ultima_optimizacion = now'
           /\ bot'.operaciones_desde_optimizacion
                = (IF ult'.fase = "reinicio" THEN 0
                   ELSE Cardinality((DOMAIN bot.operaciones_activas)
                                      \ DOMAIN bot'.operaciones_activas))
      ]_vars

(* C30: a cached scan configuration is used only while it is less than    *)
(* two hours old: the scan that goes on with a symbol has a configuration *)
(* found less than two hours ago, the close check of the strategy engine  *)
(* that closes a position read its price with one, and a search that      *)
(* finds no configuration leaves no entry for the symbol.                 *)
C30_ConfigVigente ==
    [][ (/\ now' > now
         /\ ult'.fase \in {"ciclo", "abortado"})
        => \A s \in SymbolSet :
             LET u == ult'.sim[s] IN
             /\ u.paso \notin {"activa", "posicion_bingx", "sin_config", "abortado"}
                => /\ s \in DOMAIN bot'.ultima_busqueda_config
                   /\ now' - bot'.ultima_busqueda_config[s] < CONFIG_FRESCA_MINUTOS
             /\ (variant = "estrategia" /\ u.cierre = "CERRADA")
                => now' - bot.ultima_busqueda_config[s] < CONFIG_FRESCA_MINUTOS
             /\ u.paso = "sin_config"
                => s \notin DOMAIN bot'.config_optima_por_simbolo
      ]_vars

(* the requests of one class ("SL" or "TP") that the last execution sent, *)
(* as indices of ult.ejecucion.pedidos                                    *)
PedidosDeClase(clase) ==
    { i \in 1..Len(ult.ejecucion.pedidos) : ult.ejecucion.pedidos[i].clase = clase }

(* C31: after a successful entry order, a protective order that fails is   *)
(* requested again, three times in total at most, each time at a price    *)
(* farther from the market than the time before, and an order that was    *)
(* accepted is not requested again in the same execution.                 *)
C31_ReintentosConMargen ==
    \A c \in {"SL", "TP"} :
       /\ Cardinality(PedidosDeClase(c)) <= MAX_RETRIES_CIERRE
       /\ (/\ ult.ejecucion.llamada
           /\ ult.ejecucion.ok
           /\ \A i \in PedidosDeClase(c) : ~ult.ejecucion.pedidos[i].aceptado)
          => Cardinality(PedidosDeClase(c)) = MAX_RETRIES_CIERRE
       /\ \A i, j \in PedidosDeClase(c) :
            i < j =>
              /\ ~ult.ejecucion.pedidos[i].aceptado
              /\ Abs(ult.ejecucion.pedidos[j].precio - ult.ejecucion.precio_actual)
                   > Abs(ult.ejecucion.pedidos[i].precio - ult.ejecucion.precio_actual)

(* C32: a call of _make_request sends its request at most 1 + MAX_RETRIES *)
(* times, whatever the server answers; it ends with the JSON document of  *)
(* the first answer with status 200 that has one, after which it sends    *)
(* nothing more, or with None; and every call ends.                       *)
C32_ReintentosAcotados ==
    /\ [](/\ bot.enviadas <= 1 + MAX_RETRIES
          /\ bot.profundidad = 0
          /\ bot.pc = "fin" =>
               /\ bot.resultado \in {"json", "None"}
               /\ bot.resultado = "json" <=> bot.exitosa
               /\ bot.exitosa => ult.respuesta = [status |-> 200, json |-> TRUE])
    /\ [][bot.exitosa => (bot'.enviadas = bot.enviadas \/ bot'.enviadas = 0)]_vars
    /\ (bot.pc = "sesion") ~> (bot.pc = "fin")

(* the server answered 429 to the request and to its three repetitions:   *)
(* the call ended with None                                               *)
C32_Witness ==
    /\ bot.pc = "fin"
    /\ bot.enviadas = 1 + MAX_RETRIES
    /\ ult.respuesta.status = 429
    /\ bot.resultado = "None"

(* C33: the strength level is between 1 and 5, does not decrease when the  *)
(* absolute value of the angle grows, does not depend on the sign of the   *)
(* angle, and is 1 below 3 degrees, 2 from 3, 3 from 13, 4 from 27 and 5   *)
(* from 45 degrees on.                                                     *)
C33_FuerzaEscalonada ==
    ult.fase = "clasificado" =>
      LET a == IF ult.angulos[1] < 0 THEN -ult.angulos[1] ELSE ult.angulos[1]
          b == IF ult.angulos[2] < 0 THEN -ult.angulos[2] ELSE ult.angulos[2]
      IN
      /\ ult.niveles[1] \in 1..5
      /\ a <= b => ult.niveles[1] <= ult.niveles[2]
      /\ a = b => ult.niveles[1] = ult.niveles[2]
      /\ ult.niveles[1] = (IF a < 3 THEN 1 ELSE IF a < 13 THEN 2 ELSE IF a < 27 THEN 3
                           ELSE IF a < 45 THEN 4 ELSE 5)

(* the two angles are the boundary of 27 degrees, with opposite signs *)
C33_Witness ==
    /\ ult.fase = "clasificado"
    /\ ult.angulos = <<-27, 27>>
    /\ ult.niveles = <<4, 4>>

(* C34: in every cycle a pending breakout that stays keeps its kind, its   *)
(* detection time and its breakout price; it is gone after a cycle whose   *)
(* scan confirmed its reentry and after a cycle that ran when its timeout  *)
(* had elapsed; and it goes in no other cycle.                             *)
C34_PendienteEstable ==
    [][ (/\ now' > now
         /\ ult'.fase = "ciclo")
        => \A s \in SymbolSet :
             s \in DOMAIN bot.esperando_reentry
             => LET antes == bot.esperando_reentry[s]
                    confirmado == ult'.sim[s].reentry # "NONE"
                    vencido == now' - antes.timestamp > ReentryTimeout(variant)
                IN
                /\ s \in DOMAIN bot'.esperando_reentry
                   => /\ bot'.esperando_reentry[s].tipo = antes.tipo
                      /\ bot'.esperando_reentry[s].timestamp = antes.timestamp
                      /\ bot'.esperando_reentry[s].precio_breakout = antes.precio_breakout
                /\ (confirmado \/ vencido) <=> s \notin DOMAIN bot'.esperando_reentry
      ]_vars

(* C35: every symbol with a recent-breakout entry has a pending breakout,  *)
(* so that a symbol without a pending breakout, the only kind for which    *)
(* detectar_breakout is evaluated, has no recent-breakout entry.           *)
C35_DetectadosEnEspera ==
    (DOMAIN bot.breakouts_detectados) \subseteq (DOMAIN bot.esperando_reentry)

(* a pending breakout timed out in the last scan and took its              *)
(* recent-breakout entry with it                                           *)
C35_Witness ==
    /\ ult.fase = "ciclo"
    /\ \E s \in SymbolSet :
         /\ ult.sim[s].paso = "timeout"
         /\ ult.sim[s].pend_antes # NoPend
         /\ s \notin DOMAIN bot.breakouts_detectados
         /\ s \notin DOMAIN bot.esperando_reentry

(* C36: for a price inside the channel (support <= price <= resistance,    *)
(* price > 0, min_rr_ratio > 0) the levels returned by                     *)
(* calcular_niveles_entrada have stopLoss < entry < takeProfit for a LONG  *)
(* and takeProfit < entry < stopLoss for a SHORT, so the close check at    *)
(* the entry price closes nothing.                                         *)
C36_NivelesOrdenados ==
    ult.fase = "niveles" =>
      \A s \in SymbolSet :
        LET n == ult.sim[s].niveles
            m == ult.sim[s].lectura.mercado
            tipo == ult.sim[s].reentry
        IN
        (/\ ~n.error
         /\ m.soporte <= m.precio
         /\ m.precio <= m.resistencia
         /\ m.precio > 0
         /\ Get(config, "min_rr_ratio", MIN_RR_RATIO_X10) > 0)
        => /\ n.precio_entrada = m.precio
           /\ tipo = "LONG"
                => n.stop_loss < n.precio_entrada /\ n.precio_entrada < n.take_profit
           /\ tipo = "SHORT"
                => n.take_profit < n.precio_entrada /\ n.precio_entrada < n.stop_loss
           /\ ResultadoPorPrecio([tipo |-> tipo, take_profit |-> n.take_profit,
                                  stop_loss |-> n.stop_loss],
                                 n.precio_entrada) = "NONE"

(* a SHORT in a channel of width zero: the take profit comes from the      *)
(* ratio adjustment and is below the entry                                 *)
C36_Witness ==
    /\ ult.fase = "niveles"
    /\ \E s \in SymbolSet :
         LET n == ult.sim[s].niveles
             m == ult.sim[s].lectura.mercado
         IN /\ ult.sim[s].reentry = "SHORT"
            /\ ~n.error
            /\ m.soporte = m.resistencia
            /\ m.precio = m.soporte
            /\ n.take_profit < n.precio_entrada
            /\ n.precio_entrada < n.stop_loss

(* C37: in the engine that places orders, a cycle in which                 *)
(* ejecutar_operacion_binance is called for a confirmed reentry and fails  *)
(* sends no stop-loss or take-profit request and opens no position on the  *)
(* exchange, creates no active position, leaves the signal times as they   *)
(* were and removes the pending breakout; the symbol has no               *)
(* recent-breakout entry either, so a breakout reading on the next scan is *)
(* registered.                                                             *)
C37_FalloSinRastro ==
    [][ (ult'.fase = "ciclo" /\ ult'.ejecucion.llamada /\ ~ult'.ejecucion.ok)
        => LET s == Symbols[1] IN
           /\ ult'.sim[s].paso = "no_ejecutada"
           /\ ult'.ejecucion.pedidos = <<>>
           /\ ult'.bingx = ult'.ejecucion.bingx_antes
           /\ ult'.bingx = BingxVacio
           /\ s \notin DOMAIN bot'.operaciones_activas
           /\ s \notin bot'.senales_enviadas
           /\ bot'.breakout_history = bot.breakout_history
           /\ bot'.total_operaciones = bot.total_operaciones
           /\ s \in DOMAIN bot.esperando_reentry
           /\ s \notin DOMAIN bot'.esperando_reentry
           /\ s \notin DOMAIN bot'.breakouts_detectados
           /\ \E m \in MercadosOrdenes :
                detectar_breakout(bot', variant, config, now' + PasoOrdenes, s,
                                  calcular_canal_regresion_config(m)) # "NONE"
      ]_vars

(* the order of the previous cycle failed and the scan of this cycle has   *)
(* registered a new breakout of the symbol                                 *)
C37_Witness ==
    /\ ult.fase = "ciclo"
    /\ ult.paso_prev = "no_ejecutada"
    /\ ult.sim[Symbols[1]].paso = "breakout"
    /\ Symbols[1] \in DOMAIN bot.esperando_reentry
    /\ bot.esperando_reentry[Symbols[1]].timestamp = now
    /\ Symbols[1] \notin DOMAIN bot.operaciones_activas

(* the active position of the symbol lacks a protective order on the       *)
(* exchange                                                                *)
SinProteccion ==
    /\ Symbols[1] \in DOMAIN bot.operaciones_activas
    /\ (ult.bingx.sl = <<>> \/ ult.bingx.tp = <<>>)

Protegida ==
    /\ Symbols[1] \in DOMAIN bot.operaciones_activas
    /\ ult.bingx.sl # <<>>
    /\ ult.bingx.tp # <<>>

VariacionesParametros(cfg) ==
    { [cfg EXCEPT !.entry_margin = m, !.trend_threshold_degrees = u] :
        m \in {MARGIN_VALUES[1], MARGIN_VALUES[Len(MARGIN_VALUES)]},
        u \in {TREND_VALUES[1], TREND_VALUES[Len(TREND_VALUES)]} }

(* the score of evaluar_configuracion is the same for every entry_margin *)
PuntajeSinMargen ==
    \A datos \in [1..Len(ClasesFila) -> {0, 8}] :
      \A h \in {1, Len(TREND_VALUES)}, i \in {1, Len(STRENGTH_VALUES)} :
        \A k \in 1..Len(MARGIN_VALUES) :
           evaluar_configuracion(datos, TREND_VALUES[h], STRENGTH_VALUES[i],
                                 MARGIN_VALUES[k])
             = evaluar_configuracion(datos, TREND_VALUES[h], STRENGTH_VALUES[i],
                                     MARGIN_VALUES[1])

(* C39: a cycle of the engine, run again from the same state with the same *)
(* clock, the same answers to the close check and the same market readings *)
(* under a configuration that differs in entry_margin and                  *)
(* trend_threshold_degrees only, ends with the same bot, the same ledger,  *)
(* the same step, breakout, reentry and levels for every symbol; and the   *)
(* score of the optimizer is the same for every entry_margin.              *)
C39_MargenSinEfecto ==
    [][ (ult'.fase = "ciclo" /\ config' = config)
        => /\ PuntajeSinMargen
           /\ \A cfg2 \in VariacionesParametros(config) \cup {config} :
                LET cins == [s \in SymbolSet |-> ult'.sim[s].cin]
                    ins == [s \in SymbolSet |-> ult'.sim[s].lectura]
                    st1 == verificar_cierre_operaciones(
                               [bot |-> bot, log |-> archivo_log, error |-> FALSE],
                               variant, now', cins, OrdenActivas(bot))
                    sc == escanear_mercado([bot |-> st1.bot, info |-> EmptyDict],
                                           variant, cfg2, now', ins, 1)
                IN /\ ~st1.error
                   /\ st1.log = archivo_log'
                   /\ sc.bot = bot'
                   /\ \A s \in SymbolSet :
                        /\ sc.info[s].paso = ult'.sim[s].paso
                        /\ sc.info[s].breakout = ult'.sim[s].breakout
                        /\ sc.info[s].reentry = ult'.sim[s].reentry
                        /\ sc.info[s].niveles = ult'.sim[s].niveles
      ]_vars

(* the scan has registered a breakout at the angle of the minimum, which   *)
(* a larger min_trend_strength_degrees would have rejected and the largest *)
(* trend_threshold_degrees and entry_margin do not                         *)
C39_Witness ==
    /\ ult.fase = "ciclo"
    /\ \E s \in SymbolSet :
         LET canal == calcular_canal_regresion_config(ult.sim[s].lectura.mercado)
             antes == [bot EXCEPT !.breakouts_detectados = Del(@, s)]
         IN /\ ult.sim[s].paso = "breakout"
            /\ Abs(canal.angulo_tendencia) = config.min_trend_strength_degrees
            /\ detectar_breakout(antes, variant,
                   [config EXCEPT !.min_trend_strength_degrees = @ + 1],
                   now, s, canal) = "NONE"
            /\ \A cfg2 \in VariacionesParametros(config) :
                 detectar_breakout(antes, variant, cfg2, now, s, canal)
                   = ult.sim[s].breakout

====
